---- MODULE Spec2Model ----
(***************************************************************************)
(* Model of the Sleeper MCP server (SleeperMCPServer): the rate limiter,   *)
(* the upstream client (makeApiRequest), the tools/call handler with its   *)
(* zod schemas and the roster / matchup enrichment.                        *)
(*                                                                         *)
(* JSON values are tagged records.  Strings built by template literals are *)
(* sequences of string tokens: the text is their concatenation.            *)
(***************************************************************************)
EXTENDS Integers, Sequences, FiniteSets, TLC

VARIABLES
  now,              \* Date.now(): wall clock in ms
  config,           \* this.config (rateLimitDelay)
  lastRequestTime,  \* this.lastRequestTime
  players_def,      \* sleeper_players_json_def: player id -> record
  pc,               \* per logical call: position in the handler
  req,              \* per call: request.params (name, arguments)
  wakeAt,           \* per call: time at which the setTimeout of enforceRateLimit is due
  resp,             \* per call: the outcome of fetch(url)
  results,          \* per call: the values the handler returned
  errors,           \* per call: the errors the handler threw
  env,              \* process.env.SLEEPER_LEAGUE_ID
  stamps,           \* history: the values written to lastRequestTime, in order
  ncalls,           \* history: the number of tools/call requests received
  events,           \* per call: its rate-limiter stamp and its outbound GET, in order
  upstream,         \* per call: the upstream body as it stands in memory after the handler
  variant,          \* which FilteredStdioTransport class the transport is an instance of
  writer,           \* _writer: the transport's output stream
  throwing,         \* the message handlers that throw when called
  started,          \* _started (_filtered_started)
  readers,          \* the readline interfaces created on the input; _reader is the last
  flowing,          \* the input stream is flowing: resumed by createInterface, paused
                    \* by the close() of an interface
  messageHandlers,  \* _messageHandlers in insertion order (_originalOnMessage)
  onmessage,        \* the onmessage property of StdioServerTransport
  nlines,           \* history: the number of lines that arrived on the input
  lastLine,         \* the line that arrived last
  delivered,        \* history, per handler: the lines it was called with, in order
  reported,         \* history: the lines reported through onerror
  raised,           \* history: the lines whose listener let an exception out
  ended,            \* the output stream has been ended
  closed,           \* history: close() has returned and start() was not called since
  written,          \* history: the chunks written to the output stream, in order
  nsent,            \* history: the number of calls of send()
  sending,          \* the message passed to the last send()
  sendOutcome,      \* how the promise of the last send() settled
  httpTransport,    \* this.transport of SleeperMCPServer: undefined, or the options it was built with
  nhttp,            \* history: the number of HTTP requests received
  lastHttp,         \* history: the HTTP request received last and what became of it
  handed,           \* history: the number of HTTP requests handed to the dispatcher
  promptsModule,    \* which version of the prompts module the server imports
  isInitialized,    \* MCPController.isInitialized
  cpc,              \* per controller task: where it stands
  cres,             \* per controller task: what it answered
  ninit,            \* history: the number of calls of mcpServer.initializeServer()
  agent,            \* SleeperAgentController.agent has been created
  isRunning,        \* BaseAgent.isRunning
  memory,           \* BaseAgent.memory
  apc,              \* per query: where its run stands
  ain,              \* per query: the query of the request body
  aout              \* per query: what processQuery got from run, or answered itself

server == <<now, config, lastRequestTime, players_def, pc, req, wakeAt, resp, results,
            errors, env, stamps, ncalls, events, upstream>>

incoming == <<variant, writer, throwing, started, readers, flowing, messageHandlers, onmessage,
              nlines, lastLine, delivered, reported, raised, ended, closed>>

outgoing == <<written, nsent, sending, sendOutcome>>

transport == <<incoming, outgoing>>

http == <<httpTransport, nhttp, lastHttp, handed>>

imports == <<promptsModule>>

controller == <<isInitialized, cpc, cres, ninit>>

agents == <<agent, isRunning, memory, apc, ain, aout>>

apps == <<controller, agents>>

hosting == <<http, imports, apps>>

vars == <<server, transport, hosting>>

-----------------------------------------------------------------------------
(* Bounds *)

NumCallers == 2
MaxCalls == 3
MaxTime == 1240
TickStep == 60
StartTime == 1000
MaxLen == 2
NumHandlers == 2
MaxLines == 2
MaxReaders == 3
MaxHttp == 3
NumRuns == 3
MaxSends == 3

Callers == 1..NumCallers

-----------------------------------------------------------------------------
(* JSON / JavaScript values *)

Undef == [tag |-> "undefined"]
Null == [tag |-> "null"]
Str(s) == [tag |-> "string", s |-> s]
Num(n) == [tag |-> "number", n |-> n]
Arr(xs) == [tag |-> "array", items |-> xs]
\* an object is its list of own properties, in insertion order
Obj(ps) == [tag |-> "object", props |-> ps]
Prop(k, v) == [key |-> k, val |-> v]

\* JavaScript truthiness: if (x) ...
Truthy(v) ==
  CASE v.tag = "undefined" -> FALSE
    [] v.tag = "null" -> FALSE
    [] v.tag = "string" -> v.s # ""
    [] v.tag = "number" -> v.n # 0
    [] OTHER -> TRUE

\* obj[key] for an object value: the property's value, undefined when absent
Get(o, k) ==
  IF \E i \in 1..Len(o.props) : o.props[i].key = k
  THEN o.props[CHOOSE i \in 1..Len(o.props) : o.props[i].key = k].val
  ELSE Undef

\* obj[key] = v: overwrite in place when the key exists, append otherwise
Put(o, k, v) ==
  IF \E i \in 1..Len(o.props) : o.props[i].key = k
  THEN Obj([i \in 1..Len(o.props) |->
              IF o.props[i].key = k THEN Prop(k, v) ELSE o.props[i]])
  ELSE Obj(Append(o.props, Prop(k, v)))

HasKey(o, k) == \E i \in 1..Len(o.props) : o.props[i].key = k

-----------------------------------------------------------------------------
(* zod: the schema types used by tool_validation_schemas.ts *)

ZString == [type |-> "string", min |-> <<>>, max |-> <<>>, values |-> <<>>]
ZNumber(mins, maxs) == [type |-> "number", min |-> mins, max |-> maxs, values |-> <<>>]
ZEnum(vals) == [type |-> "enum", min |-> <<>>, max |-> <<>>, values |-> vals]
Field(k, t) == [key |-> k, schema |-> t]

\* z.object({...}): the shape, in declaration order
GetLeagueSchema == <<Field("league_id", ZString)>>
GetLeagueRostersSchema == <<Field("league_id", ZString)>>
GetLeagueUsersSchema == <<Field("league_id", ZString)>>
\* the week range declared from 0
GetLeagueMatchupsSchemaFromZero ==
  <<Field("league_id", ZString), Field("week", ZNumber(<<0>>, <<18>>))>>

GetLeagueMatchupsSchema ==
  <<Field("league_id", ZString), Field("week", ZNumber(<<1>>, <<18>>))>>
GetPlayoffBracketSchema ==
  <<Field("league_id", ZString), Field("bracket_type", ZEnum(<<"winners", "losers">>))>>
GetTransactionsSchema ==
  <<Field("league_id", ZString), Field("round", ZNumber(<<1>>, <<>>))>>
GetTradedPicksSchema == <<Field("league_id", ZString)>>
GetAvatarSchema ==
  <<Field("avatar_id", ZString), Field("size", ZEnum(<<"full", "thumb">>))>>
GetUserByIdSchema == <<Field("user_id", ZString)>>
GetUserByUsernameSchema == <<Field("username", ZString)>>
\* the schema of get_player: its player_id argument
GetPlayersSchema == <<Field("player_id", ZString)>>

Range(seq) == {seq[i] : i \in 1..Len(seq)}

RECURSIVE Flatten(_)
Flatten(ss) == IF ss = <<>> THEN <<>> ELSE Head(ss) \o Flatten(Tail(ss))

\* "'a' | 'b'": the expected values of an enum, as zod prints them
RECURSIVE JoinValues(_)
JoinValues(vals) ==
  IF vals = <<>> THEN ""
  ELSE IF Len(vals) = 1 THEN "'" \o vals[1] \o "'"
  ELSE "'" \o vals[1] \o "' | " \o JoinValues(Tail(vals))

ExpectedName(t) == IF t.type = "enum" THEN JoinValues(t.values) ELSE t.type

Issue(path, message) == [path |-> path, message |-> message]

\* ZodType._parse for one value: the issues it adds, in order (none = valid)
ZodIssues(t, v, path) ==
  LET typeOk == IF t.type = "number" THEN v.tag = "number" ELSE v.tag = "string"
  IN IF ~typeOk
     THEN <<Issue(path, IF v.tag = "undefined" THEN "Required"
                        ELSE "Expected " \o ExpectedName(t) \o ", received " \o v.tag)>>
     ELSE CASE t.type = "string" -> <<>>
            [] t.type = "number" ->
                 (IF t.min # <<>> /\ v.n < t.min[1]
                  THEN <<Issue(path, "Number must be greater than or equal to "
                                      \o ToString(t.min[1]))>>
                  ELSE <<>>)
                 \o
                 (IF t.max # <<>> /\ v.n > t.max[1]
                  THEN <<Issue(path, "Number must be less than or equal to "
                                      \o ToString(t.max[1]))>>
                  ELSE <<>>)
            [] t.type = "enum" ->
                 IF v.s \in Range(t.values) THEN <<>>
                 ELSE <<Issue(path, "Invalid enum value. Expected "
                                     \o JoinValues(t.values) \o ", received '" \o v.s \o "'")>>

\* an object parse that aborts at the first key with an issue
ZodParseFirstOnly(shape, args) ==
  IF args.tag # "object"
  THEN [ok |-> FALSE,
        issues |-> <<Issue(<<>>, IF args.tag = "undefined" THEN "Required"
                                 ELSE "Expected object, received " \o args.tag)>>]
  ELSE LET issues == Flatten([i \in 1..Len(shape) |->
                        ZodIssues(shape[i].schema, Get(args, shape[i].key), <<shape[i].key>>)])
       IN IF issues = <<>>
          THEN [ok |-> TRUE,
                params |-> Obj([i \in 1..Len(shape) |->
                                  Prop(shape[i].key, Get(args, shape[i].key))])]
          ELSE [ok |-> FALSE, issues |-> <<issues[1]>>]

\* ZodObject.parse(args): every key of the shape is parsed, the issues of all
\* keys are collected; unknown keys are stripped from the output
ZodParse(shape, args) ==
  IF args.tag # "object"
  THEN [ok |-> FALSE,
        issues |-> <<Issue(<<>>, IF args.tag = "undefined" THEN "Required"
                                 ELSE "Expected object, received " \o args.tag)>>]
  ELSE LET issues == Flatten([i \in 1..Len(shape) |->
                        ZodIssues(shape[i].schema, Get(args, shape[i].key), <<shape[i].key>>)])
       IN IF issues = <<>>
          THEN [ok |-> TRUE,
                params |-> Obj([i \in 1..Len(shape) |->
                                  Prop(shape[i].key, Get(args, shape[i].key))])]
          ELSE [ok |-> FALSE, issues |-> issues]

\* path.join('.')
RECURSIVE JoinPath(_)
JoinPath(path) ==
  IF path = <<>> THEN ""
  ELSE IF Len(path) = 1 THEN path[1]
  ELSE path[1] \o "." \o JoinPath(Tail(path))

\* errors.map(e => `${e.path.join('.')}: ${e.message}`).join(', ') as tokens
RECURSIVE JoinIssues(_)
JoinIssues(issues) ==
  IF issues = <<>> THEN <<>>
  ELSE <<JoinPath(issues[1].path), ": ", issues[1].message>>
       \o (IF Len(issues) = 1 THEN <<>> ELSE <<", ">> \o JoinIssues(Tail(issues)))

-----------------------------------------------------------------------------
(* Errors *)

McpError(code, message) ==
  [class |-> "McpError", code |-> code, message |-> message, issues |-> <<>>]
\* thrown by schema.parse: error.errors holds the issues
ZodError(issues) ==
  [class |-> "ZodError", code |-> "none", message |-> JoinIssues(issues), issues |-> issues]
\* a plain Error / TypeError / SyntaxError: no MCP error code
JsError(class, message) ==
  [class |-> class, code |-> "none", message |-> message, issues |-> <<>>]

ErrorCodes == {"MethodNotFound", "InvalidParams", "InternalError"}

Return(v) == [kind |-> "return", value |-> v]
Throw(e) == [kind |-> "throw", error |-> e]
\* the handler is suspended in `await this.makeApiRequest(endpoint)`
Request(endpoint) == [kind |-> "request", endpoint |-> endpoint]

-----------------------------------------------------------------------------
(* Configuration *)

API_BASE_URL == "https://api.sleeper.app/v1"
CDN_BASE_URL == "https://sleepercdn.com"
RATE_LIMIT_DELAY == 120
DEFAULT_LEAGUE_ID == "1255621170552655872"

\* a || b on JavaScript values
OrElse(a, b) == IF Truthy(a) THEN a ELSE b

\* constructor(config?: Partial<SleeperApiConfig>)
Constructor(partial) ==
  [apiBaseUrl |-> OrElse(partial.apiBaseUrl, Str(API_BASE_URL)).s,
   cdnBaseUrl |-> OrElse(partial.cdnBaseUrl, Str(CDN_BASE_URL)).s,
   rateLimitDelay |-> OrElse(partial.rateLimitDelay, Num(RATE_LIMIT_DELAY)).n]

-----------------------------------------------------------------------------
(* Helpers of the server *)

\* JSON.stringify(data, null, 2): the text that serialises data
JSONStringify(data) ==
  IF data.tag = "undefined" THEN Undef ELSE [tag |-> "string", json |-> data]

TextBlock(text) == [type |-> "text", text |-> text]

\* formatResponse with its unused description parameter emitted as a second block
formatResponseDescribed(data) ==
  [content |-> <<TextBlock(JSONStringify(data)), TextBlock(Str("description"))>>]

\* formatResponse(data)
formatResponse(data) == [content |-> <<TextBlock(JSONStringify(data))>>]

\* getAvatarUrl always answering with the full-size path
getAvatarUrlFull(cfg, avatarId, size) == <<cfg.cdnBaseUrl, "/avatars/", avatarId>>

\* getAvatarUrl(avatarId, size), as tokens
getAvatarUrl(cfg, avatarId, size) ==
  LET path == IF size = "thumb" THEN <<"/avatars/thumbs/", avatarId>>
              ELSE <<"/avatars/", avatarId>>
  IN <<cfg.cdnBaseUrl>> \o path

\* getPlayerName returning the record's full_name without checking that it is set
getPlayerNameUnchecked(table, playerId) ==
  LET player == Get(table, playerId.s)
  IN IF Truthy(player) THEN Get(player, "full_name") ELSE playerId

\* getPlayerName(playerId) against the bundled player table
getPlayerName(table, playerId) ==
  LET player == Get(table, playerId.s)
  IN IF Truthy(player) /\ Truthy(Get(player, "full_name"))
     THEN Get(player, "full_name")
     ELSE playerId

\* list.map(playerId => getPlayerName(playerId))
MapNames(table, list) == Arr([i \in 1..Len(list.items) |-> getPlayerName(table, list.items[i])])

NotAFunction(what) == JsError("TypeError", <<what, ".map is not a function">>)

-----------------------------------------------------------------------------
(* Enrichment: the bodies of the two data.map(...) callbacks *)

\* { ...value }: a shallow copy holding the own properties of value
Spread(value) == IF value.tag = "object" THEN value ELSE Obj(<<>>)

\* if (transformed.f) transformed.f = transformed.f.map(getPlayerName)
TransformList(table, transformed, f) ==
  LET list == Get(transformed, f)
  IN IF ~Truthy(list) THEN Return(transformed)
     ELSE IF list.tag # "array" THEN Throw(NotAFunction("transformed." \o f))
     ELSE Return(Put(transformed, f, MapNames(table, list)))

\* run the steps in order on the value so far; the first throw ends the run
RECURSIVE TransformLists(_, _, _)
TransformLists(table, transformed, fs) ==
  IF fs = <<>> THEN Return(transformed)
  ELSE LET r == TransformList(table, transformed, Head(fs))
       IN IF r.kind = "throw" THEN r
          ELSE TransformLists(table, r.value, Tail(fs))

\* the callback of data.map in get_league_rosters
EnrichRoster(table, roster) ==
  TransformLists(table, Spread(roster), <<"players", "starters", "keepers">>)

\* transformed.starters_points[index]
PointsAt(points, index) ==
  CASE points.tag = "array" ->
         IF index + 1 \in 1..Len(points.items) THEN points.items[index + 1] ELSE Undef
    [] points.tag = "object" -> Get(points, ToString(index))
    [] OTHER -> Undef

\* originalStarters.forEach((playerId, index) => { ... }), from position i on
RECURSIVE StartersWithPoints(_, _, _, _, _)
StartersWithPoints(table, originalStarters, points, i, acc) ==
  IF i > Len(originalStarters) THEN acc
  ELSE LET playerName == getPlayerName(table, originalStarters[i])
           pts == OrElse(PointsAt(points, i - 1), Num(0))
       IN StartersWithPoints(table, originalStarters, points, i + 1,
                             Put(acc, playerName.s, pts))

\* Object.entries(value)
Entries(value) ==
  CASE value.tag = "object" -> value.props
    [] value.tag = "array" ->
         [i \in 1..Len(value.items) |-> Prop(ToString(i - 1), value.items[i])]
    [] OTHER -> <<>>

\* for (const [playerId, points] of Object.entries(...)) { ... }, from position i on
RECURSIVE NewPlayersPoints(_, _, _, _)
NewPlayersPoints(table, entries, i, acc) ==
  IF i > Len(entries) THEN acc
  ELSE NewPlayersPoints(table, entries, i + 1,
         Put(acc, getPlayerName(table, Str(entries[i].key)).s, entries[i].val))

\* the callback of data.map in get_league_matchups
EnrichMatchup(table, matchup) ==
  LET t0 == Spread(matchup)
      starters == Get(t0, "starters")
  IN IF Truthy(starters) /\ starters.tag # "array"
     THEN Throw(JsError("TypeError", <<"transformed.starters", " is not iterable">>))
     ELSE
       LET originalStarters == IF Truthy(starters) THEN starters.items ELSE <<>>
           r1 == TransformLists(table, t0, <<"starters", "players">>)
       IN IF r1.kind = "throw" THEN r1
          ELSE
            LET t1 == r1.value
                sp == Get(t1, "starters_points")
                t2 == IF Truthy(sp) /\ Len(originalStarters) > 0
                      THEN Put(t1, "starters_points",
                               StartersWithPoints(table, originalStarters, sp, 1, Obj(<<>>)))
                      ELSE t1
                pp == Get(t2, "players_points")
                t3 == IF Truthy(pp)
                      THEN Put(t2, "players_points",
                               NewPlayersPoints(table, Entries(pp), 1, Obj(<<>>)))
                      ELSE t2
            IN Return(t3)

\* data.map(callback) for the upstream body: body must be a list; the first
\* element whose callback throws ends the call
MapBody(data, outs) ==
  CASE data.tag = "null" \/ data.tag = "undefined" ->
         Throw(JsError("TypeError", <<"Cannot read properties of ", data.tag,
                                      " (reading 'map')">>))
    [] data.tag # "array" -> Throw(NotAFunction("data"))
    [] OTHER ->
         IF \E i \in 1..Len(outs) : outs[i].kind = "throw"
         THEN outs[CHOOSE i \in 1..Len(outs) :
                        /\ outs[i].kind = "throw"
                        /\ \A j \in 1..(i - 1) : outs[j].kind # "throw"]
         ELSE Return(Arr([i \in 1..Len(outs) |-> outs[i].value]))

EnrichRosters(table, data) ==
  MapBody(data, IF data.tag = "array"
                THEN [i \in 1..Len(data.items) |-> EnrichRoster(table, data.items[i])]
                ELSE <<>>)

EnrichMatchups(table, data) ==
  MapBody(data, IF data.tag = "array"
                THEN [i \in 1..Len(data.items) |-> EnrichMatchup(table, data.items[i])]
                ELSE <<>>)

-----------------------------------------------------------------------------
(* The object graph of an upstream body. Objects and lists live in the    *)
(* cells of a heap and are held by reference, so that writing through a   *)
(* copy and writing through the original are different things             *)

Ref(a) == [tag |-> "ref", addr |-> a]

\* a value goes into memory: each list and object takes a new cell, from the
\* inside out; the result is the heap and the value that stands for v in it
RECURSIVE Load(_, _), LoadSeq(_, _, _)
LoadSeq(heap, vs, acc) ==
  IF vs = <<>> THEN [heap |-> heap, vals |-> acc]
  ELSE LET r == Load(heap, Head(vs))
       IN LoadSeq(r.heap, Tail(vs), Append(acc, r.val))

Load(heap, v) ==
  CASE v.tag = "array" ->
         LET r == LoadSeq(heap, v.items, <<>>)
         IN [heap |-> Append(r.heap, Arr(r.vals)), val |-> Ref(Len(r.heap) + 1)]
    [] v.tag = "object" ->
         LET r == LoadSeq(heap, [i \in DOMAIN v.props |-> v.props[i].val], <<>>)
         IN [heap |-> Append(r.heap, Obj([i \in DOMAIN v.props |->
                                            Prop(v.props[i].key, r.vals[i])])),
             val |-> Ref(Len(r.heap) + 1)]
    [] OTHER -> [heap |-> heap, val |-> v]

\* the value a reference stands for, read through the heap
RECURSIVE Deep(_, _)
Deep(heap, v) ==
  IF v.tag # "ref" THEN v
  ELSE LET cell == heap[v.addr]
       IN IF cell.tag = "array"
          THEN Arr([i \in DOMAIN cell.items |-> Deep(heap, cell.items[i])])
          ELSE Obj([i \in DOMAIN cell.props |->
                      Prop(cell.props[i].key, Deep(heap, cell.props[i].val))])

\* const transformed = value: the same object under a second name
SpreadAliased(heap, value) ==
  IF value.tag = "ref" /\ heap[value.addr].tag = "object"
  THEN [heap |-> heap, val |-> value]
  ELSE [heap |-> Append(heap, Obj(<<>>)), val |-> Ref(Len(heap) + 1)]

\* const transformed = { ...value }: a new object with value's own
\* properties; the lists and mappings they refer to are shared with value
SpreadCopy(heap, value) ==
  [heap |-> Append(heap, IF value.tag = "ref" /\ heap[value.addr].tag = "object"
                         THEN heap[value.addr] ELSE Obj(<<>>)),
   val |-> Ref(Len(heap) + 1)]

\* target.f = value
Assign(heap, target, f, value) == [heap EXCEPT ![target.addr] = Put(@, f, value)]

\* target.f = value, for a value the callback has just built: it takes new
\* cells, and the assignment writes to target
AssignLoaded(heap, target, f, value) ==
  LET r == Load(heap, value) IN Assign(r.heap, target, f, r.val)

\* if (transformed.f) transformed.f = transformed.f.map(getPlayerName):
\* map builds a new list, the assignment writes to transformed
AssignMapped(table, heap, transformed, f) ==
  LET list == Deep(heap, Get(heap[transformed.addr], f))
  IN IF ~Truthy(list) \/ list.tag # "array" THEN heap
     ELSE AssignLoaded(heap, transformed, f, MapNames(table, list))

\* the steps in order; a step that throws writes nothing and ends the run
RECURSIVE AssignMappedAll(_, _, _, _)
AssignMappedAll(table, heap, transformed, fs) ==
  IF fs = <<>> THEN heap
  ELSE IF TransformList(table, Deep(heap, transformed), Head(fs)).kind = "throw"
       THEN heap
       ELSE AssignMappedAll(table, AssignMapped(table, heap, transformed, Head(fs)),
                            transformed, Tail(fs))

\* the list rewrites of one callback on its copy t, and whether one of them threw
ListsInMemory(table, t, fs) ==
  [heap |-> AssignMappedAll(table, t.heap, t.val, fs),
   val |-> t.val,
   thrown |-> TransformLists(table, Deep(t.heap, t.val), fs).kind = "throw"]

\* the callback of data.map in get_league_rosters, on the heap
RosterInMemory(table, heap, roster) ==
  ListsInMemory(table, SpreadCopy(heap, roster), <<"players", "starters", "keepers">>)

\* if (transformed.starters_points && originalStarters.length > 0): the new
\* mapping takes a new cell, the assignment writes to transformed
StartersPointsInMemory(table, heap, transformed, originalStarters) ==
  LET sp == Deep(heap, Get(heap[transformed.addr], "starters_points"))
  IN IF Truthy(sp) /\ Len(originalStarters) > 0
     THEN AssignLoaded(heap, transformed, "starters_points",
                       StartersWithPoints(table, originalStarters, sp, 1, Obj(<<>>)))
     ELSE heap

\* if (transformed.players_points): likewise
PlayersPointsInMemory(table, heap, transformed) ==
  LET pp == Deep(heap, Get(heap[transformed.addr], "players_points"))
  IN IF Truthy(pp)
     THEN AssignLoaded(heap, transformed, "players_points",
                       NewPlayersPoints(table, Entries(pp), 1, Obj(<<>>)))
     ELSE heap

\* the two mappings of a matchup, once its lists (m) have been rewritten
PointsInMemory(table, m, originalStarters) ==
  IF m.thrown THEN m
  ELSE [m EXCEPT !.heap = PlayersPointsInMemory(table,
                            StartersPointsInMemory(table, m.heap, m.val, originalStarters),
                            m.val)]

\* const originalStarters = transformed.starters || [], on the copy t
OriginalStartersInMemory(t) == Deep(t.heap, Get(t.heap[t.val.addr], "starters"))

\* the callback of data.map in get_league_matchups after the spread
MatchupAfterSpread(table, t, starters) ==
  IF Truthy(starters) /\ starters.tag # "array"
  THEN [heap |-> t.heap, val |-> t.val, thrown |-> TRUE]
  ELSE PointsInMemory(table, ListsInMemory(table, t, <<"starters", "players">>),
                      IF Truthy(starters) THEN starters.items ELSE <<>>)

\* the callback of data.map in get_league_matchups, on the heap
MatchupWithCopy(table, t) == MatchupAfterSpread(table, t, OriginalStartersInMemory(t))

MatchupInMemory(table, heap, matchup) == MatchupWithCopy(table, SpreadCopy(heap, matchup))

\* data.map(callback) on the heap, from element i on: the callbacks run in
\* order, each on the heap the previous one left; a throw ends the run
RECURSIVE MapInMemory(_, _, _, _, _, _)
MapInMemory(table, name, heap, items, i, acc) ==
  IF i > Len(items) THEN [heap |-> heap, vals |-> acc, thrown |-> FALSE]
  ELSE LET r == IF name = "get_league_rosters"
                THEN RosterInMemory(table, heap, items[i])
                ELSE MatchupInMemory(table, heap, items[i])
       IN IF r.thrown THEN [heap |-> r.heap, vals |-> acc, thrown |-> TRUE]
          ELSE MapInMemory(table, name, r.heap, items, i + 1, Append(acc, r.val))

\* the memory of one call after the handler has run on the body `data`:
\* the heap, the reference to the body, and the values the callbacks returned
HandlerMemory(table, name, data) ==
  LET b == Load(<<>>, data)
  IN IF name \in {"get_league_rosters", "get_league_matchups"} /\ data.tag = "array"
     THEN LET m == MapInMemory(table, name, b.heap, b.heap[b.val.addr].items, 1, <<>>)
          IN [heap |-> m.heap, body |-> b.val, returned |-> m.vals, thrown |-> m.thrown]
     ELSE [heap |-> b.heap, body |-> b.val, returned |-> <<>>, thrown |-> FALSE]

\* the upstream body as it stands in memory once the handler has run
UpstreamAfter(table, name, data) ==
  LET m == HandlerMemory(table, name, data) IN Deep(m.heap, m.body)

-----------------------------------------------------------------------------
(* The tools/call handler *)

ToolNames ==
  {"get_league_id", "get_league", "get_league_rosters", "get_league_users",
   "get_league_matchups", "get_playoff_bracket", "get_transactions",
   "get_traded_picks", "get_avatar", "get_user_by_id", "get_user_by_username",
   "get_player"}

\* the cases that await this.makeApiRequest(...)
UpstreamTools ==
  {"get_league", "get_league_rosters", "get_league_users", "get_league_matchups",
   "get_playoff_bracket", "get_transactions", "get_traded_picks",
   "get_user_by_id", "get_user_by_username"}

\* the schema a case of the switch parses its arguments with
SchemaOf(name) ==
  CASE name = "get_league" -> GetLeagueSchema
    [] name = "get_league_rosters" -> GetLeagueRostersSchema
    [] name = "get_league_users" -> GetLeagueUsersSchema
    [] name = "get_league_matchups" -> GetLeagueMatchupsSchema
    [] name = "get_playoff_bracket" -> GetPlayoffBracketSchema
    [] name = "get_transactions" -> GetTransactionsSchema
    [] name = "get_traded_picks" -> GetTradedPicksSchema
    [] name = "get_avatar" -> GetAvatarSchema
    [] name = "get_user_by_id" -> GetUserByIdSchema
    [] name = "get_user_by_username" -> GetUserByUsernameSchema
    [] name = "get_player" -> GetPlayersSchema
    [] OTHER -> <<>>

\* the endpoint template of each upstream-backed case, as tokens
Endpoint(name, params) ==
  LET league == <<"/league/", Get(params, "league_id").s>>
  IN CASE name = "get_league" -> league
       [] name = "get_league_rosters" -> league \o <<"/rosters">>
       [] name = "get_league_users" -> league \o <<"/users">>
       [] name = "get_league_matchups" ->
            league \o <<"/matchups/", ToString(Get(params, "week").n)>>
       [] name = "get_playoff_bracket" ->
            IF Get(params, "bracket_type").s = "winners"
            THEN league \o <<"/winners_bracket">>
            ELSE league \o <<"/losers_bracket">>
       [] name = "get_transactions" ->
            league \o <<"/transactions/", ToString(Get(params, "round").n)>>
       [] name = "get_traded_picks" -> league \o <<"/traded_picks">>
       [] name = "get_user_by_id" -> <<"/user/", Get(params, "user_id").s>>
       [] name = "get_user_by_username" -> <<"/user/", Get(params, "username").s>>

\* Object.values(table).find(p => p.player_id === id): undefined when none
FindPlayer(table, id) ==
  LET hit(i) == table.props[i].val.tag = "object"
                /\ Get(table.props[i].val, "player_id") = id
  IN IF \E i \in 1..Len(table.props) : hit(i)
     THEN table.props[CHOOSE i \in 1..Len(table.props) :
                        hit(i) /\ \A j \in 1..(i - 1) : ~hit(j)].val
     ELSE Undef

\* the league id taken from the environment alone
LeagueIdFromEnv(leagueEnv) == leagueEnv

\* process.env.SLEEPER_LEAGUE_ID || DEFAULT_LEAGUE_ID
LeagueId(leagueEnv) == OrElse(leagueEnv, Str(DEFAULT_LEAGUE_ID))

\* the case as it was before the lookup became local (commented out in the
\* source): the player list is fetched from the API
GetPlayerCaseApi(table, params) == Request(<<"/players/", "nfl">>)

\* case "get_player": the player is looked up in sleeper_players_json_def
GetPlayerCase(table, params) ==
  LET id == Get(params, "player_id")
      player == FindPlayer(table, id)
  IN IF ~Truthy(player)
     THEN Throw(McpError("InvalidParams", <<"Player with ID ", id.s, " not found">>))
     ELSE Return(formatResponse(player))

\* the switch, run from its start to the first await or to its end
ToolSwitch(cfg, leagueEnv, table, name, args) ==
  IF name = "get_league_id"
  THEN Return(formatResponse(Obj(<<Prop("league_id", LeagueId(leagueEnv))>>)))
  ELSE IF name \notin ToolNames
  THEN Throw(McpError("MethodNotFound", <<"Unknown tool: ", name>>))
  ELSE
    LET parsed == ZodParse(SchemaOf(name), args)
    IN IF ~parsed.ok THEN Throw(ZodError(parsed.issues))
       ELSE CASE name = "get_avatar" ->
                   LET id == Get(parsed.params, "avatar_id")
                       size == Get(parsed.params, "size")
                   IN Return([content |-> <<TextBlock(JSONStringify(Obj(
                         <<Prop("avatar_url", [tag |-> "string", tokens |->
                                                 getAvatarUrl(cfg, id.s, size.s)]),
                           Prop("avatar_id", id),
                           Prop("size", size),
                           Prop("message",
                                Str("Use this URL to display the avatar image"))>>)))>>])
              [] name = "get_player" -> GetPlayerCase(table, parsed.params)
              [] OTHER -> Request(Endpoint(name, parsed.params))

\* the switch, resumed with the value makeApiRequest returned
ToolResume(table, name, data) ==
  CASE name = "get_league_rosters" ->
         LET r == EnrichRosters(table, data)
         IN IF r.kind = "throw" THEN r ELSE Return(formatResponse(r.value))
    [] name = "get_league_matchups" ->
         LET r == EnrichMatchups(table, data)
         IN IF r.kind = "throw" THEN r ELSE Return(formatResponse(r.value))
    [] OTHER -> Return(formatResponse(data))

\* the catch clause reporting every caught error as a parameter error
ToolCatchAllInvalid(error) ==
  IF error.class = "ZodError"
  THEN McpError("InvalidParams", <<"Invalid parameters: ">> \o JoinIssues(error.issues))
  ELSE McpError("InvalidParams", <<"Invalid parameters: ">> \o error.message)

\* catch (error) { ... } of the handler: the error it throws
ToolCatch(error) ==
  IF error.class = "ZodError"
  THEN McpError("InvalidParams", <<"Invalid parameters: ">> \o JoinIssues(error.issues))
  ELSE error

\* try { ... } catch: what the handler does with the outcome of its switch
Handled(outcome) ==
  IF outcome.kind = "throw" THEN Throw(ToolCatch(outcome.error)) ELSE outcome

-----------------------------------------------------------------------------
(* makeApiRequest: after enforceRateLimit, from fetch(url) on *)

\* the outcomes of `await fetch(url)` and `await response.json()`
HttpOk(data) == [kind |-> "ok", status |-> 200, statusText |-> "OK", data |-> data]
HttpStatus(status, statusText) ==
  [kind |-> "status", status |-> status, statusText |-> statusText, data |-> Undef]
\* fetch rejects (DNS, connection refused, ...)
FetchFails(reason) == [kind |-> "reject", status |-> 0, statusText |-> reason, data |-> Undef]
\* response.json() rejects: the body is not JSON
BadJson(reason) == [kind |-> "badjson", status |-> 200, statusText |-> reason, data |-> Undef]

\* makeApiRequest without the response.ok check
ApiResultUnchecked(r) ==
  IF r.kind \in {"ok", "status"} THEN Return(r.data)
  ELSE Throw(McpError("InternalError",
                      <<"Failed to fetch from Sleeper API: ", r.statusText>>))

\* try { ... } catch of makeApiRequest
ApiResult(r) ==
  LET inner ==
        CASE r.kind = "status" ->
               <<"API request failed: ", ToString(r.status), " ", r.statusText>>
          [] OTHER -> <<r.statusText>>
  IN IF r.kind = "ok" THEN Return(r.data)
     ELSE Throw(McpError("InternalError",
                         <<"Failed to fetch from Sleeper API: ">> \o inner))

-----------------------------------------------------------------------------
(* Inputs *)

\* every sequence over S of length at most n
SeqsUpTo(S, n) == UNION {[1..k -> S] : k \in 0..n}

NoArgs == Obj(<<>>)

\* an arguments object holding the keys of ks whose value in f is defined
ArgsFrom(ks, f) ==
  LET present == SelectSeq(ks, LAMBDA k : f[k] # Undef)
  IN Obj([i \in 1..Len(present) |-> Prop(present[i], f[present[i]])])

WeekLo == 0 - 1
WeekHi == 20

ValuesFor(k) ==
  CASE k = "week" -> {Undef, Str("5")} \cup {Num(n) : n \in WeekLo..WeekHi}
    [] k = "round" -> {Undef, Str("1"), Num(0), Num(1), Num(30)}
    [] k = "bracket_type" -> {Undef, Num(7), Str("winners"), Str("losers"), Str("finals")}
    [] k = "size" -> {Undef, Num(7), Str("full"), Str("thumb"), Str("large")}
    [] k = "player_id" -> {Undef, Num(7), Str("4046"), Str("5849"), Str("CLE")}
    [] k = "avatar_id" -> {Undef, Num(7), Str("abc123"), Str("")}
    [] OTHER -> {Undef, Num(7), Str("abc123")}

\* the arguments a caller may send for a key list: absent, or any object over the keys
ArgsOver(ks) ==
  {Undef} \cup {ArgsFrom(ks, f) : f \in {g \in [Range(ks) -> UNION {ValuesFor(k) : k \in Range(ks)}] :
                                           \A k \in Range(ks) : g[k] \in ValuesFor(k)}}

KeysOf(name) ==
  IF name \in ToolNames \ {"get_league_id"}
  THEN [i \in 1..Len(SchemaOf(name)) |-> SchemaOf(name)[i].key]
  ELSE <<"league_id", "week">>

UnknownNames == {"nonexistent_tool", "get_trending_players"}

CallToolRequest(name, args) == [name |-> name, arguments |-> args]

AllRequests ==
  UNION {{CallToolRequest(name, a) : a \in ArgsOver(KeysOf(name))} :
            name \in ToolNames \cup UnknownNames}

ValidArgs(name) ==
  CASE name = "get_league_matchups" ->
         Obj(<<Prop("league_id", Str("abc123")), Prop("week", Num(5))>>)
    [] name = "get_avatar" ->
         Obj(<<Prop("avatar_id", Str("abc123")), Prop("size", Str("thumb"))>>)
    [] OTHER -> Obj(<<Prop("league_id", Str("abc123"))>>)

ServerRequests ==
  {CallToolRequest(name, ValidArgs(name)) : name \in {"get_league", "get_avatar"}}
  \cup {CallToolRequest("get_league_id", a) : a \in {Undef, ValidArgs("get_league")}}

PlayerIdSeq == <<"4046", "5849">>
RosterIds == {"4046", "5849", "CLE"}
PlayerNames == {"Patrick Mahomes", "Josh Allen"}
NoRecord == "-"
NoName == ""

PlayerRecord(id, name) ==
  Obj(<<Prop("player_id", Str(id))>>
      \o (IF name = NoName THEN <<>> ELSE <<Prop("full_name", Str(name))>>))

\* a player table: f gives each id its full_name, NoName or NoRecord
TableOf(f) ==
  LET present == SelectSeq(PlayerIdSeq, LAMBDA id : f[id] # NoRecord)
  IN Obj([i \in 1..Len(present) |-> Prop(present[i], PlayerRecord(present[i], f[present[i]]))])

PlayerTables ==
  {TableOf(f) : f \in {g \in [Range(PlayerIdSeq) -> PlayerNames \cup {NoRecord, NoName}] :
                          g["4046"] \in {"Patrick Mahomes", NoName}}}

SampleTable == TableOf([id \in Range(PlayerIdSeq) |->
                          IF id = "4046" THEN "Patrick Mahomes" ELSE "Josh Allen"])

IdLists == {Arr(ids) : ids \in SeqsUpTo({Str(id) : id \in RosterIds}, MaxLen)}
ListVals == {Undef, Null, Num(5)} \cup IdLists
FewLists == {Undef, Num(5), Arr(<<>>), Arr(<<Str("4046"), Str("CLE")>>)}
PointLists == {Arr(ps) : ps \in SeqsUpTo({Num(0), Num(10), Num(24)}, MaxLen)}
PointVals == {Undef, Null} \cup PointLists
PlayersPoints ==
  {Undef,
   Obj(<<Prop("4046", Num(10)), Prop("5849", Num(24))>>),
   Obj(<<Prop("4046", Num(10)), Prop("CLE", Num(8))>>)}

\* a payload object holding the defined properties among ps
Payload(ps) == Obj(SelectSeq(ps, LAMBDA p : p.val # Undef))

RosterPayloads ==
  {Payload(<<Prop("roster_id", Num(1)), Prop("players", p), Prop("starters", s),
             Prop("keepers", k)>>) :
      p \in ListVals, s \in FewLists, k \in FewLists}

MatchupPayloads ==
  {Payload(<<Prop("matchup_id", Num(1)), Prop("starters", s), Prop("players", p),
             Prop("starters_points", sp), Prop("players_points", pp)>>) :
      s \in ListVals, p \in {Undef, Arr(<<Str("4046"), Str("CLE")>>)},
      sp \in PointVals, pp \in PlayersPoints}

SampleRoster ==
  Payload(<<Prop("roster_id", Num(1)),
            Prop("players", Arr(<<Str("4046"), Str("CLE")>>)),
            Prop("starters", Arr(<<Str("4046")>>))>>)

SampleMatchup ==
  Payload(<<Prop("matchup_id", Num(1)),
            Prop("starters", Arr(<<Str("4046"), Str("5849")>>)),
            Prop("starters_points", Arr(<<Num(24), Num(10)>>))>>)

Failures ==
  {HttpStatus(404, "Not Found"), HttpStatus(500, "Internal Server Error"),
   FetchFails("connect ECONNREFUSED"), BadJson("Unexpected token < in JSON at position 0")}

SampleLeague == Obj(<<Prop("league_id", Str("abc123"))>>)

ServerResponses == {HttpOk(SampleLeague), HttpStatus(404, "Not Found")}

DispatchResponses ==
  {HttpOk(Arr(<<SampleRoster>>)), HttpOk(Arr(<<SampleMatchup>>)), HttpOk(Null),
   HttpOk(SampleLeague)}
  \cup Failures

\* what the upstream may answer to the endpoint of a roster or matchup call
EnrichResponses(name) ==
  {HttpOk(Arr(<<m>>)) :
      m \in IF name = "get_league_rosters" THEN RosterPayloads ELSE MatchupPayloads}
  \cup {HttpOk(Arr(<<>>)), HttpOk(Arr(<<Null, SampleRoster>>)),
        HttpOk(Arr(<<SampleMatchup, SampleRoster>>)),
        HttpOk(Arr(<<Payload(<<Prop("players", Num(5))>>), SampleRoster>>))}

NoConfig == [apiBaseUrl |-> Undef, cdnBaseUrl |-> Undef, rateLimitDelay |-> Undef]
PartialConfigs ==
  {[NoConfig EXCEPT !.rateLimitDelay = d] : d \in {Undef, Num(60)}}


-----------------------------------------------------------------------------
(* FilteredStdioTransport: the line-pipe transport, in its two versions:   *)
(* the class that implements Transport and keeps sets of handlers, and the *)
(* class that extends StdioServerTransport and forwards to onmessage       *)

Variants == {"Transport", "StdioServerTransport"}
Outputs == {"stdout", "stderr", "stream"}
Handlers == 1..NumHandlers
NoHandler == 0

\* the lines fed to the input stream
LineText == "hello world"
LineBlank == "  "
LineNull == "null"
LineNoVersion == "{\"method\":\"ping\",\"id\":1}"
LineVersion1 == "{\"jsonrpc\":\"1.0\",\"method\":\"ping\",\"id\":1}"
LineNumber2 == "{\"jsonrpc\":2.0,\"method\":\"ping\",\"id\":1}"
LinePing == "{\"jsonrpc\":\"2.0\",\"method\":\"ping\",\"id\":1}"
LineBogus == "{\"jsonrpc\":\"2.0\",\"method\":\"bogus\",\"id\":2}"
Lines ==
  {LineText, LineBlank, LineNull, LineNoVersion, LineVersion1, LineNumber2, LinePing,
   LineBogus}

\* line.trim()
Trim(line) == IF line = LineBlank THEN "" ELSE line

Ping(version) ==
  Obj(<<Prop("jsonrpc", version), Prop("method", Str("ping")), Prop("id", Num(1))>>)

\* JSON.parse(line): the parsed value, or a SyntaxError
JSONParse(line) ==
  CASE line = LineNull -> Return(Null)
    [] line = LineNoVersion ->
         Return(Obj(<<Prop("method", Str("ping")), Prop("id", Num(1))>>))
    [] line = LineVersion1 -> Return(Ping(Str("1.0")))
    [] line = LineNumber2 -> Return(Ping(Num(2)))
    [] line = LinePing -> Return(Ping(Str("2.0")))
    [] line = LineBogus ->
         Return(Obj(<<Prop("jsonrpc", Str("2.0")), Prop("method", Str("bogus")),
                      Prop("id", Num(2))>>))
    [] OTHER -> Throw(JsError("SyntaxError", <<"Unexpected token in JSON">>))

\* obj.key for any parsed value that is not null
Member(obj, key) == IF obj.tag = "object" THEN Get(obj, key) ELSE Undef

\* !obj || typeof obj !== 'object'
NotAnObject(obj) == ~Truthy(obj) \/ obj.tag \notin {"object", "array"}

\* value == '2.0' with JavaScript's abstract equality: a number is compared
\* with the number the string denotes, a list with its elements joined by ","
LooseEquals2_0(value) ==
  CASE value.tag = "string" -> value.s = "2.0"
    [] value.tag = "number" -> value.n = 2
    [] value.tag = "array" ->
         /\ Len(value.items) = 1
         /\ value.items[1].tag = "string"
         /\ value.items[1].s = "2.0"
    [] OTHER -> FALSE

\* isValidJSONRPC of the class extending StdioServerTransport
isValidJSONRPCLoose(obj) ==
  IF NotAnObject(obj) THEN FALSE ELSE LooseEquals2_0(Member(obj, "jsonrpc"))

\* isValidJSONRPC of the class implementing Transport
isValidJSONRPC(obj) ==
  IF NotAnObject(obj) THEN FALSE ELSE Member(obj, "jsonrpc") = Str("2.0")

validMethods ==
  {"initialize", "notifications/initialized", "ping", "tools/list", "tools/call",
   "resources/list", "resources/read", "prompts/list", "prompts/get",
   "completion/complete", "roots/list", "sampling/createMessage", "logging/setLevel",
   "notifications/message", "notifications/progress", "notifications/cancelled",
   "notifications/roots/list_changed", "notifications/resources/list_changed",
   "notifications/resources/updated", "notifications/tools/list_changed",
   "notifications/prompts/list_changed"}

isValidMCPMessage(obj) ==
  IF NotAnObject(obj) THEN FALSE
  ELSE LET method == Member(obj, "method")
       IN IF Truthy(method) /\ ~(method.tag = "string" /\ method.s \in validMethods)
          THEN FALSE
          ELSE IF /\ Member(obj, "id") # Undef /\ ~Truthy(method)
                  /\ Member(obj, "result") = Undef /\ Member(obj, "error") = Undef
               THEN FALSE
               ELSE TRUE

\* the handlers a loop over `handlers` calls when the ones in `throwers`
\* throw: every handler up to and including the first that throws
RECURSIVE CalledUntilThrow(_, _)
CalledUntilThrow(handlers, throwers) ==
  IF handlers = <<>> THEN <<>>
  ELSE IF Head(handlers) \in throwers THEN <<Head(handlers)>>
  ELSE <<Head(handlers)>> \o CalledUntilThrow(Tail(handlers), throwers)

Heard(calls, reports, raises) == [calls |-> calls, reports |-> reports, raises |-> raises]

\* the 'line' listener of setupInputHandling (class implementing Transport):
\* the handlers it calls, the errors it passes on, the exceptions that leave it
LineListener(handlers, throwers, line) ==
  IF Trim(line) = "" THEN Heard(<<>>, 0, 0)
  ELSE LET parsed == JSONParse(line)
       IN IF parsed.kind = "throw" THEN Heard(<<>>, 0, 0)
          ELSE IF isValidJSONRPC(parsed.value)
               THEN Heard(CalledUntilThrow(handlers, throwers), 0, 0)
               ELSE Heard(<<>>, 0, 0)

\* the 'line' listener installed by start() (class extending StdioServerTransport)
LineListenerStdio(handlers, throwers, line) ==
  LET trimmed == Trim(line)
  IN IF trimmed = "" THEN Heard(<<>>, 0, 0)
     ELSE LET obj == JSONParse(trimmed)
          IN IF obj.kind = "throw" THEN Heard(<<>>, 0, 0)
             ELSE IF isValidJSONRPCLoose(obj.value) /\ isValidMCPMessage(obj.value)
                  THEN IF handlers = <<>> THEN Heard(<<>>, 0, 0)
                       ELSE Heard(<<Head(handlers)>>,
                                  IF Head(handlers) \in throwers THEN 1 ELSE 0, 0)
                  ELSE Heard(<<>>, 0, 0)

\* a readline interface on the input stream, with its 'line' listeners
Reader(listeners) == [open |-> TRUE, listeners |-> listeners]

\* the listeners that hear a line: those of every interface still open
RECURSIVE ListenersOf(_)
ListenersOf(rs) ==
  IF rs = <<>> THEN 0
  ELSE (IF Head(rs).open THEN Head(rs).listeners ELSE 0) + ListenersOf(Tail(rs))

\* seq repeated k times
RECURSIVE Times(_, _)
Times(seq, k) == IF k = 0 THEN <<>> ELSE seq \o Times(seq, k - 1)

\* a string given by its pieces: plain text, line breaks and double quotes
NL == "\n"
QUOTE == "\""
Text(pieces) == [tag |-> "string", pieces |-> pieces]

\* the escaping of JSON.stringify for the pieces of a string
EscapePiece(piece) ==
  CASE piece = NL -> "\\n"
    [] piece = QUOTE -> "\\\""
    [] OTHER -> piece

\* JSON.stringify(message): the text, piece by piece, with no indentation
RECURSIVE Serialize(_), SerializeMembers(_)
Serialize(v) ==
  CASE v.tag = "null" -> <<"null">>
    [] v.tag = "number" -> <<ToString(v.n)>>
    [] v.tag = "string" ->
         IF "pieces" \in DOMAIN v
         THEN <<QUOTE>> \o [i \in DOMAIN v.pieces |-> EscapePiece(v.pieces[i])] \o <<QUOTE>>
         ELSE <<QUOTE, v.s, QUOTE>>
    [] v.tag = "object" -> <<"{">> \o SerializeMembers(v.props) \o <<"}">>

SerializeMembers(ps) ==
  IF ps = <<>> THEN <<>>
  ELSE <<QUOTE, Head(ps).key, QUOTE, ":">> \o Serialize(Head(ps).val)
         \o (IF Len(ps) = 1 THEN <<>> ELSE <<",">> \o SerializeMembers(Tail(ps)))

NoSend == [kind |-> "none"]
NotStarted == Throw(JsError("Error", <<"Transport not started">>))
WriteAfterEnd == Throw(JsError("Error", <<"write after end">>))
WriteFailed == Throw(JsError("Error", <<"write EPIPE">>))

\* the constructor of the transport
InitTransport(variants, outputs, throwerSets) ==
  /\ variant \in variants
  /\ writer \in outputs
  /\ throwing \in throwerSets
  /\ started = FALSE
  /\ readers = <<Reader(IF variant = "Transport" THEN 1 ELSE 0)>>
  /\ flowing = TRUE
  /\ messageHandlers = <<>>
  /\ onmessage = NoHandler
  /\ nlines = 0
  /\ lastLine = ""
  /\ delivered = [h \in Handlers |-> <<>>]
  /\ reported = <<>>
  /\ raised = <<>>
  /\ ended = FALSE
  /\ closed = FALSE
  /\ written = <<>>
  /\ nsent = 0
  /\ sending = Undef
  /\ sendOutcome = NoSend

-----------------------------------------------------------------------------
(* Prompts: sleeper_prompts.ts and the prompts/get handler *)

PromptArg(name, required) == [name |-> name, required |-> required]
PromptDef(name, description, arguments) ==
  [tag |-> "object", name |-> name, description |-> description, arguments |-> arguments]

PROMPT_LIST ==
  <<PromptDef("fantasy_analyzer",
              "Analyze fantasy football data and provide strategic insights",
              <<PromptArg("league_id", TRUE), PromptArg("analysis_type", TRUE),
                PromptArg("week", FALSE)>>),
    PromptDef("tuesday_summary",
              "Generate a summary of the previous week's games with comical roasts",
              <<PromptArg("league_id", TRUE), PromptArg("summary_type", TRUE)>>)>>

\* PROMPT_LIST of the version of the module that imports weeklySummaryPrompt
PROMPT_LIST_WEEKLY ==
  <<PromptDef("fantasy_analyzer",
              "Analyze fantasy football data and provide strategic insights",
              <<PromptArg("league_id", TRUE), PromptArg("analysis_type", TRUE),
                PromptArg("week", FALSE)>>),
    PromptDef("weekly_summary",
              "Generate a summary of the previous week's games and current standings",
              <<>>)>>

\* the two versions of the prompts module among the sources
PromptsTuesday == "sleeper_prompts.ts"
PromptsWeekly == "sleeper_prompts.ts (weekly_summary)"
PromptsModules == {PromptsTuesday, PromptsWeekly}

getAvailablePrompts(module) ==
  IF module = PromptsWeekly THEN PROMPT_LIST_WEEKLY ELSE PROMPT_LIST

\* prompts.find(p => p.name === promptName) || null
getPromptDefinition(module, promptName) ==
  LET prompts == getAvailablePrompts(module)
      hit(i) == prompts[i].name = promptName
  IN IF \E i \in DOMAIN prompts : hit(i)
     THEN prompts[CHOOSE i \in DOMAIN prompts : hit(i) /\ \A j \in 1..(i - 1) : ~hit(j)]
     ELSE Null

\* `${value}` inside a template literal
Interpolate(value) ==
  CASE value.tag = "string" -> value.s
    [] value.tag = "number" -> ToString(value.n)
    [] OTHER -> value.tag

\* the part common to the texts of one prompt
BasePrompt(intro, league_id) ==
  <<"You are a fantasy football expert analyzing Sleeper league data for league ",
    Interpolate(league_id), ". ", intro>>

GeneralAnalysis == "Please provide a general analysis of this fantasy football league"

generateFantasyAnalyzerPrompt(args) ==
  LET league_id == Member(args, "league_id")
      analysis_type == Member(args, "analysis_type")
      week == Member(args, "week")
      basePrompt == BasePrompt("You are also a sports writer with a comical lean.", league_id)
  IN CASE analysis_type = Str("roster_analysis") ->
            Return(basePrompt \o <<"Please analyze the current rosters in this league">>)
       [] analysis_type = Str("matchup_analysis") ->
            IF ~Truthy(week)
            THEN Throw(JsError("Error", <<"Week number is required for matchup analysis">>))
            ELSE Return(basePrompt \o <<"Please analyze the matchups for week ",
                                         Interpolate(week)>>)
       [] analysis_type = Str("trade_analysis") ->
            Return(basePrompt \o <<"Please analyze recent trading activity">>)
       [] analysis_type = Str("season_recap") ->
            Return(basePrompt \o <<"Please provide a comprehensive season analysis">>)
       [] OTHER -> Return(basePrompt \o <<GeneralAnalysis>>)

generateTuesdaySummaryPrompt(args) ==
  LET league_id == Member(args, "league_id")
      summary_type == Member(args, "summary_type")
      basePrompt == BasePrompt("You are also a sports writer who roasts players and teams.",
                               league_id)
  IN IF summary_type = Str("regular_summary")
     THEN Return(basePrompt \o <<"Calculate the margins of victories for all matches">>)
     ELSE Return(basePrompt \o <<GeneralAnalysis>>)

weeklySummaryPrompt == "# Enhanced Fantasy Football League Analysis Prompt"

generateWeeklySummaryPrompt(args) == Return(<<weeklySummaryPrompt>>)

\* generatePrompt(promptName, args = {})
generatePrompt(module, promptName, args) ==
  LET given == IF args = Undef THEN Obj(<<>>) ELSE args
  IN CASE promptName = "fantasy_analyzer" -> generateFantasyAnalyzerPrompt(given)
       [] promptName = "tuesday_summary" ->
            IF module = PromptsWeekly THEN generateWeeklySummaryPrompt(given)
            ELSE generateTuesdaySummaryPrompt(given)
       [] OTHER -> Throw(JsError("Error", <<"Unknown prompt: ", promptName>>))

\* promptDefinition.arguments.filter(arg => arg.required)
RequiredArgs(promptDefinition) ==
  SelectSeq(promptDefinition.arguments, LAMBDA arg : arg.required)

\* !args || !(requiredArg.name in args)
ArgMissing(args, requiredArg) ==
  ~Truthy(args) \/ ~HasKey(args, requiredArg.name)

\* what one run of the handler's try block did: its outcome, and whether it
\* called generatePrompt
Ran(outcome, generated) == [outcome |-> outcome, generated |-> generated]

\* the try block of the prompts/get handler
PromptTry(module, name, args) ==
  LET promptDefinition == getPromptDefinition(module, name)
  IN IF promptDefinition.tag = "null"
     THEN Ran(Throw(McpError("MethodNotFound", <<"Unknown prompt: ", name>>)), FALSE)
     ELSE
       LET requiredArgs == RequiredArgs(promptDefinition)
           missing(i) == ArgMissing(args, requiredArgs[i])
       IN IF \E i \in DOMAIN requiredArgs : missing(i)
          THEN LET first == CHOOSE i \in DOMAIN requiredArgs :
                              missing(i) /\ \A j \in 1..(i - 1) : ~missing(j)
               IN Ran(Throw(McpError("InvalidParams",
                                     <<"Missing required argument: ",
                                       requiredArgs[first].name>>)), FALSE)
          ELSE LET generatedPrompt == generatePrompt(module, name, args)
               IN IF generatedPrompt.kind = "throw" THEN Ran(generatedPrompt, TRUE)
                  ELSE Ran(Return([description |-> promptDefinition.description,
                                   messages |->
                                     <<[role |-> "user",
                                        content |-> TextBlock(generatedPrompt.value)]>>]),
                           TRUE)

\* the catch clause wrapping every caught error
PromptCatchWrapAll(error) ==
  McpError("InternalError", <<"Failed to generate prompt: ">> \o error.message)

\* catch (error) { ... } of the prompts/get handler: the error it throws
PromptCatch(error) ==
  IF error.class = "McpError" THEN error
  ELSE McpError("InternalError", <<"Failed to generate prompt: ">> \o error.message)

\* try { ... } catch of the prompts/get handler
PromptHandled(outcome) ==
  IF outcome.kind = "throw" THEN Throw(PromptCatch(outcome.error)) ELSE outcome

-----------------------------------------------------------------------------
(* The HTTP-streaming transport of SleeperMCPServer *)

Ports == {"3000", "8080"}

\* a header a request does not carry
NoHeader == <<>>

\* the options initialize(port) passes to new StreamableHTTPServerTransport
TransportOptions(port) ==
  [allowedHosts |-> {<<"localhost">>, <<"127.0.0.1">>},
   allowedOrigins |-> {<<"http://localhost:", port>>, <<"http://127.0.0.1:", port>>},
   enableDnsRebindingProtection |-> FALSE]

NoTransport == [allowedHosts |-> {}, allowedOrigins |-> {},
                enableDnsRebindingProtection |-> FALSE, defined |-> FALSE]

HttpRequest(host, origin) == [host |-> host, origin |-> origin]

\* the transport's check of the headers of a request against its options:
\* the reason for a refusal, or NoHeader when the request passes. With the
\* protection switched off no header is looked at
validateRequestHeaders(options, r) ==
  IF ~options.enableDnsRebindingProtection THEN NoHeader
  ELSE IF options.allowedHosts # {} /\ r.host \notin options.allowedHosts
       THEN <<"Invalid Host header: ">> \o r.host
       ELSE IF options.allowedOrigins # {} /\ r.origin \notin options.allowedOrigins
            THEN <<"Invalid Origin header: ">> \o r.origin
            ELSE NoHeader

\* SleeperMCPServer.handleRequest: what becomes of the request r
handleRequest(tr, r) ==
  IF ~tr.defined THEN "throw"
  ELSE IF validateRequestHeaders(tr, r) # NoHeader THEN "403"
       ELSE "handed"

NoHttpRequest == [host |-> NoHeader, origin |-> NoHeader, outcome |-> "none"]

\* the state after `new SleeperMCPServer()`: this.transport is undefined
InitHttp ==
  /\ httpTransport = NoTransport
  /\ nhttp = 0
  /\ lastHttp = NoHttpRequest
  /\ handed = 0

\* the tasks that run on one MCPController: the initialize() call of the
\* routes module at load, and one request per route
Routes == {"handleSSE", "handleMessages", "getStatus", "healthCheck"}
Tasks == {"load"} \cup Routes

\* what a task that got past initialisation answers
Answer(t) ==
  CASE t = "load" -> "initialized"
    [] t = "handleSSE" -> "connected"
    [] OTHER -> "200"

\* what becomes of the error initialize() rethrows, per caller
Rethrown(t) ==
  CASE t = "load" -> "console.error"
    [] t = "getStatus" -> "next(error)"
    [] OTHER -> "500"

\* the state after `new MCPController()`
InitController ==
  /\ isInitialized = FALSE
  /\ cpc = [t \in Tasks |-> "idle"]
  /\ cres = [t \in Tasks |-> "none"]
  /\ ninit = 0

Queries == 1..NumRuns

HumanMessage(content) == [role |-> "human", content |-> content]
AIMessage(content) == [role |-> "ai", content |-> content]

\* BaseAgent.updateMemory: push both messages, keep the last ten
updateMemory(mem, input, response) ==
  LET pushed == mem \o <<HumanMessage(input), AIMessage(response)>>
  IN IF Len(pushed) > 10 THEN SubSeq(pushed, Len(pushed) - 9, Len(pushed)) ELSE pushed

\* the memory after five earlier runs
FullMemory ==
  [i \in 1..10 |-> IF i % 2 = 1 THEN HumanMessage(Str("earlier"))
                                ELSE AIMessage(Str("answered"))]

NoOutcome == [kind |-> "none"]
Status400 == [kind |-> "400"]
AlreadyRunning == Throw(JsError("Error", <<"Agent is already running">>))

\* the run of query r is between `this.isRunning = true` and its finally block
InProgress(r) == apc[r] \in {"perceive", "reason", "act"}

\* the state after `new SleeperAgentController()`, with the memory the
\* agent has when it was used before
InitAgentWith(memories) ==
  /\ memory \in memories
  /\ agent = (memory # <<>>)
  /\ isRunning = FALSE
  /\ apc = [r \in Queries |-> "idle"]
  /\ ain = [r \in Queries |-> Undef]
  /\ aout = [r \in Queries |-> NoOutcome]

InitAgent == InitAgentWith({<<>>})

\* the server with the prompts module it imports
InitHostingWith(modules) ==
  /\ InitHttp
  /\ promptsModule \in modules
  /\ InitController
  /\ InitAgent

InitHosting == InitHostingWith({PromptsTuesday})

-----------------------------------------------------------------------------
(* State machine *)

NoRequest == CallToolRequest("", Undef)
NoResponse == [kind |-> "none", status |-> 0, statusText |-> "", data |-> Undef]

StampEvent(t) == [type |-> "stamp", time |-> t, url |-> <<>>]
GetEvent(t, url) == [type |-> "GET", time |-> t, url |-> url]

\* the state after `new SleeperMCPServer(partial)`
InitWith(partials, tables, envs) ==
  /\ now = StartTime
  /\ config \in {Constructor(p) : p \in partials}
  /\ lastRequestTime = 0
  /\ players_def \in tables
  /\ env \in envs
  /\ pc = [c \in Callers |-> "idle"]
  /\ req = [c \in Callers |-> NoRequest]
  /\ wakeAt = [c \in Callers |-> 0]
  /\ resp = [c \in Callers |-> NoResponse]
  /\ results = [c \in Callers |-> <<>>]
  /\ errors = [c \in Callers |-> <<>>]
  /\ stamps = <<>>
  /\ ncalls = 0
  /\ events = [c \in Callers |-> <<>>]
  /\ upstream = [c \in Callers |-> Undef]

\* the delay passed to setTimeout in enforceRateLimit
TimeoutDelayElapsed(rateLimitDelay, timeSinceLastRequest) == timeSinceLastRequest

\* the delay with the sign of the elapsed time turned round
TimeoutDelayFromLast(rateLimitDelay, timeSinceLastRequest) ==
  rateLimitDelay + timeSinceLastRequest

TimeoutDelay(rateLimitDelay, timeSinceLastRequest) == rateLimitDelay - timeSinceLastRequest

\* the handler settles: it returns a value or throws an error
Settle(c, outcome) ==
  /\ pc' = [pc EXCEPT ![c] = "done"]
  /\ results' = [results EXCEPT ![c] =
                   IF outcome.kind = "return" THEN Append(@, outcome.value) ELSE @]
  /\ errors' = [errors EXCEPT ![c] =
                  IF outcome.kind = "throw" THEN Append(@, outcome.error) ELSE @]

\* enforceRateLimit without its last statement on the path that does not wait
EnterRateLimitUnstamped(c) ==
  LET timeSinceLastRequest == now - lastRequestTime
  IN IF timeSinceLastRequest < config.rateLimitDelay
     THEN /\ wakeAt' = [wakeAt EXCEPT ![c] =
                          now + TimeoutDelay(config.rateLimitDelay, timeSinceLastRequest)]
          /\ pc' = [pc EXCEPT ![c] = "waiting"]
          /\ UNCHANGED <<lastRequestTime, stamps, events>>
     ELSE /\ pc' = [pc EXCEPT ![c] = "stamped"]
          /\ UNCHANGED <<lastRequestTime, stamps, events, wakeAt>>

\* enforceRateLimit, from its start to its await (or to its end when it does not wait)
EnterRateLimit(c) ==
  LET timeSinceLastRequest == now - lastRequestTime
  IN IF timeSinceLastRequest < config.rateLimitDelay
     THEN /\ wakeAt' = [wakeAt EXCEPT ![c] =
                          now + TimeoutDelay(config.rateLimitDelay, timeSinceLastRequest)]
          /\ pc' = [pc EXCEPT ![c] = "waiting"]
          /\ UNCHANGED <<lastRequestTime, stamps, events>>
     ELSE /\ lastRequestTime' = now
          /\ stamps' = Append(stamps, now)
          /\ events' = [events EXCEPT ![c] = Append(@, StampEvent(now))]
          /\ pc' = [pc EXCEPT ![c] = "stamped"]
          /\ UNCHANGED wakeAt

\* the handler with enforceRateLimit entered before the arguments are parsed
CallToolLimitFirst(c, r) ==
  /\ pc[c] = "idle"
  /\ ncalls < MaxCalls
  /\ ncalls' = ncalls + 1
  /\ req' = [req EXCEPT ![c] = r]
  /\ IF r.name \in UpstreamTools
     THEN /\ EnterRateLimit(c)
          /\ UNCHANGED <<results, errors>>
     ELSE /\ Settle(c, Handled(ToolSwitch(config, env, players_def, r.name, r.arguments)))
          /\ UNCHANGED <<lastRequestTime, wakeAt, stamps, events>>
  /\ UNCHANGED <<now, config, players_def, env, resp, upstream>>
  /\ UNCHANGED <<transport, hosting>>

\* a tools/call request arrives: the handler runs to its first suspension
CallTool(c, r) ==
  /\ pc[c] = "idle"
  /\ ncalls < MaxCalls
  /\ ncalls' = ncalls + 1
  /\ req' = [req EXCEPT ![c] = r]
  /\ LET outcome == Handled(ToolSwitch(config, env, players_def, r.name, r.arguments))
     IN IF outcome.kind = "request"
        THEN /\ EnterRateLimit(c)
             /\ UNCHANGED <<results, errors>>
        ELSE /\ Settle(c, outcome)
             /\ UNCHANGED <<lastRequestTime, wakeAt, stamps, events>>
  /\ UNCHANGED <<now, config, players_def, env, resp, upstream>>
  /\ UNCHANGED <<transport, hosting>>

\* the timer of enforceRateLimit fires: the call stamps the current time
TimerFires(c) ==
  /\ pc[c] = "waiting"
  /\ now >= wakeAt[c]
  /\ lastRequestTime' = now
  /\ stamps' = Append(stamps, now)
  /\ events' = [events EXCEPT ![c] = Append(@, StampEvent(now))]
  /\ pc' = [pc EXCEPT ![c] = "stamped"]
  /\ UNCHANGED <<now, config, players_def, env, req, wakeAt, resp, results, errors, ncalls,
                 upstream>>
  /\ UNCHANGED <<transport, hosting>>

\* makeApiRequest resumes after enforceRateLimit and issues fetch(url)
IssueGet(c) ==
  /\ pc[c] = "stamped"
  /\ LET outcome == ToolSwitch(config, env, players_def, req[c].name, req[c].arguments)
     IN events' = [events EXCEPT ![c] =
                     Append(@, GetEvent(now, <<config.apiBaseUrl>> \o outcome.endpoint))]
  /\ pc' = [pc EXCEPT ![c] = "fetching"]
  /\ UNCHANGED <<now, config, lastRequestTime, players_def, env, req, wakeAt, resp,
                 results, errors, stamps, ncalls, upstream>>
  /\ UNCHANGED <<transport, hosting>>

\* the upstream answers (or the request fails): the handler runs to its end
Respond(c, r) ==
  /\ pc[c] = "fetching"
  /\ resp' = [resp EXCEPT ![c] = r]
  /\ LET api == ApiResult(r)
         outcome == IF api.kind = "throw" THEN api
                    ELSE ToolResume(players_def, req[c].name, api.value)
     IN /\ Settle(c, Handled(outcome))
        /\ upstream' = [upstream EXCEPT ![c] =
                          IF api.kind = "throw" THEN @
                          ELSE UpstreamAfter(players_def, req[c].name, api.value)]
  /\ UNCHANGED <<now, config, lastRequestTime, players_def, env, req, wakeAt, stamps, ncalls,
                 events>>
  /\ UNCHANGED <<transport, hosting>>

\* the response was delivered: the logical caller may send its next request
NextRequest(c) ==
  /\ pc[c] = "done"
  /\ ncalls < MaxCalls
  /\ pc' = [pc EXCEPT ![c] = "idle"]
  /\ req' = [req EXCEPT ![c] = NoRequest]
  /\ wakeAt' = [wakeAt EXCEPT ![c] = 0]
  /\ resp' = [resp EXCEPT ![c] = NoResponse]
  /\ results' = [results EXCEPT ![c] = <<>>]
  /\ errors' = [errors EXCEPT ![c] = <<>>]
  /\ events' = [events EXCEPT ![c] = <<>>]
  /\ upstream' = [upstream EXCEPT ![c] = Undef]
  /\ UNCHANGED <<now, config, lastRequestTime, players_def, env, stamps, ncalls>>
  /\ UNCHANGED <<transport, hosting>>

\* time passes
Tick ==
  /\ now + TickStep <= MaxTime
  /\ now' = now + TickStep
  /\ UNCHANGED <<config, lastRequestTime, players_def, env, pc, req, wakeAt, resp,
                 results, errors, stamps, ncalls, events, upstream>>
  /\ UNCHANGED <<transport, hosting>>

Init ==
  /\ InitWith(PartialConfigs, {SampleTable}, {Undef})
  /\ InitTransport({"Transport"}, {"stdout"}, {{}})
  /\ InitHosting

Next ==
  \/ \E c \in Callers, r \in ServerRequests : CallTool(c, r)
  \/ \E c \in Callers : TimerFires(c)
  \/ \E c \in Callers : IssueGet(c)
  \/ \E c \in Callers, r \in ServerResponses : Respond(c, r)
  \/ \E c \in Callers : NextRequest(c)
  \/ Tick

Spec == Init /\ [][Next]_vars

TypeOK ==
  /\ now \in StartTime..MaxTime
  /\ \A c \in Callers : pc[c] \in {"idle", "waiting", "stamped", "fetching", "done"}

-----------------------------------------------------------------------------
(* Sequential use of the rate limiter: a call enters enforceRateLimit only *)
(* when no other call is inside it                                         *)

SeqCallTool(c, r) ==
  /\ \A d \in Callers : pc[d] # "waiting"
  /\ CallTool(c, r)

NextSeq ==
  \/ \E c \in Callers, r \in ServerRequests : SeqCallTool(c, r)
  \/ \E c \in Callers : TimerFires(c)
  \/ \E c \in Callers : IssueGet(c)
  \/ \E c \in Callers, r \in ServerResponses : Respond(c, r)
  \/ \E c \in Callers : NextRequest(c)
  \/ Tick

SpecSeq == Init /\ [][NextSeq]_vars

(* One tools/call on a fresh server, over every tool name and argument shape *)

InitDispatch ==
  /\ InitWith({NoConfig}, {SampleTable}, {Undef, Str("987654321")})
  /\ InitTransport({"Transport"}, {"stdout"}, {{}})
  /\ InitHosting

NextDispatch ==
  \/ pc[1] = "idle" /\ \E r \in AllRequests : CallTool(1, r)
  \/ IssueGet(1)
  \/ \E r \in DispatchResponses : Respond(1, r)

SpecDispatch == InitDispatch /\ [][NextDispatch]_vars

(* One roster or matchup call, over every player table and upstream payload *)

InitEnrich ==
  /\ InitWith({NoConfig}, PlayerTables, {Undef})
  /\ InitTransport({"Transport"}, {"stdout"}, {{}})
  /\ InitHosting

EnrichRequests ==
  {CallToolRequest(name, ValidArgs(name)) :
      name \in {"get_league_rosters", "get_league_matchups"}}

NextEnrich ==
  \/ \E r \in EnrichRequests : CallTool(1, r)
  \/ IssueGet(1)
  \/ pc[1] = "fetching" /\ \E r \in EnrichResponses(req[1].name) : Respond(1, r)

SpecEnrich == InitEnrich /\ [][NextEnrich]_vars

(* The rate limiter with timers that fire: time passes, and a timer that *)
(* is due fires. The clock of the model ends at MaxTime, so a call is     *)
(* received only while its timer would still be due within the clock      *)

LiveCallTool(c, r) ==
  /\ now + config.rateLimitDelay + TickStep <= MaxTime
  /\ CallTool(c, r)

LiveRequests == {CallToolRequest("get_league", ValidArgs("get_league"))}

NextLive ==
  \/ \E c \in Callers : pc[c] = "idle" /\ \E r \in LiveRequests : LiveCallTool(c, r)
  \/ \E c \in Callers : TimerFires(c)
  \/ \E c \in Callers : IssueGet(c)
  \/ \E c \in Callers : pc[c] = "fetching" /\ Respond(c, HttpOk(SampleLeague))
  \/ \E c \in Callers : NextRequest(c)
  \/ Tick

SpecLive ==
  /\ Init
  /\ [][NextLive]_vars
  /\ WF_vars(Tick)
  /\ \A c \in Callers : WF_vars(TimerFires(c))

(* Calls that are answered without the upstream (the local tools, refused *)
(* requests) among upstream-backed calls                                *)

LocalTools == {"get_league_id", "get_avatar", "get_player"}

LocalRequests ==
  {CallToolRequest("get_league_id", Undef),
   CallToolRequest("get_avatar", ValidArgs("get_avatar")),
   CallToolRequest("get_avatar", Obj(<<>>)),
   CallToolRequest("get_player", Obj(<<Prop("player_id", Str("4046"))>>)),
   CallToolRequest("get_player", Obj(<<Prop("player_id", Str("CLE"))>>)),
   CallToolRequest("get_player", Undef)}

\* requests the handler refuses: arguments that fail the schema, unknown names
RefusedRequests ==
  {CallToolRequest("get_league", Obj(<<>>)),
   CallToolRequest("get_league", Undef),
   CallToolRequest("get_league_matchups",
                   Obj(<<Prop("league_id", Str("abc123")), Prop("week", Num(0))>>)),
   CallToolRequest("nonexistent_tool", ValidArgs("get_league"))}

MixedRequests ==
  {CallToolRequest("get_league", ValidArgs("get_league"))}
    \cup LocalRequests \cup RefusedRequests

InitLocal ==
  /\ InitWith({NoConfig}, {SampleTable}, {Undef})
  /\ InitTransport({"Transport"}, {"stdout"}, {{}})
  /\ InitHosting

NextLocal ==
  \/ \E c \in Callers : pc[c] = "idle" /\ \E r \in MixedRequests : CallTool(c, r)
  \/ \E c \in Callers : TimerFires(c)
  \/ \E c \in Callers : IssueGet(c)
  \/ \E c \in Callers : pc[c] = "fetching" /\ Respond(c, HttpOk(SampleLeague))
  \/ \E c \in Callers : NextRequest(c)
  \/ Tick

SpecLocal == InitLocal /\ [][NextLocal]_vars

-----------------------------------------------------------------------------
(* The line-pipe transport as a state machine *)

\* onMessage(handler): _messageHandlers.add(handler); on the class extending
\* StdioServerTransport, the assignment transport.onmessage = handler.
\* Handlers are numbered in the order of their first registration
OnMessage(h) ==
  /\ IF variant = "Transport"
     THEN /\ h <= Len(messageHandlers) + 1
          /\ messageHandlers' = IF h \in Range(messageHandlers) THEN messageHandlers
                                ELSE Append(messageHandlers, h)
          /\ UNCHANGED onmessage
     ELSE /\ onmessage' = h
          /\ UNCHANGED messageHandlers
  /\ UNCHANGED <<variant, writer, throwing, started, readers, flowing, nlines, lastLine,
                 delivered, reported, raised, ended, closed>>
  /\ UNCHANGED <<server, hosting, outgoing>>

\* start(): on a started transport it returns (or throws) with no effect;
\* otherwise the class implementing Transport creates a further readline
\* interface with its own listeners, the other class adds its listeners to
\* the interface of the constructor and captures onmessage
Start ==
  /\ IF started
     THEN UNCHANGED <<readers, flowing, messageHandlers>>
     ELSE IF variant = "Transport"
          THEN /\ Len(readers) < MaxReaders
               /\ readers' = Append(readers, Reader(1))
               /\ flowing' = TRUE
               /\ UNCHANGED messageHandlers
          ELSE /\ readers[1].listeners + 1 < MaxReaders
               /\ readers' = [readers EXCEPT ![1].listeners = @ + 1]
               /\ messageHandlers' = IF onmessage = NoHandler THEN <<>> ELSE <<onmessage>>
               /\ UNCHANGED flowing
  /\ started' = TRUE
  /\ closed' = FALSE
  /\ UNCHANGED <<variant, writer, throwing, onmessage, nlines, lastLine, delivered, reported,
                 raised, ended>>
  /\ UNCHANGED <<server, hosting, outgoing>>

\* the input stream, flowing, delivers a line: every open readline interface
\* emits it to its listeners
InputLine(text) ==
  /\ flowing
  /\ nlines < MaxLines
  /\ nlines' = nlines + 1
  /\ lastLine' = text
  /\ LET heard == IF variant = "Transport"
                  THEN LineListener(messageHandlers, throwing, text)
                  ELSE LineListenerStdio(messageHandlers, throwing, text)
         k == ListenersOf(readers)
     IN /\ delivered' = [h \in Handlers |->
                           delivered[h] \o
                             Times(<<text>>, k * Len(SelectSeq(heard.calls, LAMBDA c : c = h)))]
        /\ reported' = reported \o Times(<<text>>, k * heard.reports)
        /\ raised' = raised \o Times(<<text>>, k * heard.raises)
  /\ UNCHANGED <<variant, writer, throwing, started, readers, flowing, messageHandlers,
                 onmessage, ended, closed>>
  /\ UNCHANGED <<server, hosting, outgoing>>

\* close(): on a transport that is not started it returns with no effect;
\* otherwise it closes _reader, which pauses the input stream
Close ==
  /\ IF ~started
     THEN UNCHANGED <<readers, flowing, ended, started>>
     ELSE /\ readers' = [readers EXCEPT ![Len(readers)].open = FALSE]
          /\ flowing' = FALSE
          /\ ended' = IF variant = "Transport" /\ writer \notin {"stdout", "stderr"}
                      THEN TRUE ELSE ended
          /\ started' = FALSE
  /\ closed' = TRUE
  /\ UNCHANGED <<variant, writer, throwing, messageHandlers, onmessage, nlines, lastLine,
                 delivered, reported, raised>>
  /\ UNCHANGED <<server, hosting, outgoing>>

\* send with the test of _started left out
SendUnchecked(message) ==
  /\ nsent < MaxSends
  /\ nsent' = nsent + 1
  /\ sending' = message
  /\ IF ended
       THEN sendOutcome' = WriteAfterEnd /\ UNCHANGED written
       ELSE \/ /\ written' = Append(written, Serialize(message) \o <<NL>>)
               /\ sendOutcome' = Return(Undef)
            \/ sendOutcome' = WriteFailed /\ UNCHANGED written
  /\ UNCHANGED incoming
  /\ UNCHANGED <<server, hosting>>

\* send(message) of the class implementing Transport: it throws on a
\* transport that is not started; otherwise it writes JSON.stringify(message)
\* + '\n' in one write, and the promise settles as the write callback says
Send(message) ==
  /\ nsent < MaxSends
  /\ nsent' = nsent + 1
  /\ sending' = message
  /\ IF ~started
       THEN sendOutcome' = NotStarted /\ UNCHANGED written
       ELSE IF ended
            THEN sendOutcome' = WriteAfterEnd /\ UNCHANGED written
            ELSE \/ /\ written' = Append(written, Serialize(message) \o <<NL>>)
                    /\ sendOutcome' = Return(Undef)
                 \/ sendOutcome' = WriteFailed /\ UNCHANGED written
  /\ UNCHANGED incoming
  /\ UNCHANGED <<server, hosting>>

\* the messages handed to send(): a request, a tool result whose text has
\* line breaks and quotes, and an error response
PrettyText == Text(<<"{", NL, "  ", QUOTE, "name", QUOTE, ": 1", NL, "}">>)
OutMessages ==
  {Ping(Str("2.0")),
   Obj(<<Prop("jsonrpc", Str("2.0")), Prop("id", Num(1)),
         Prop("result", Obj(<<Prop("text", PrettyText)>>))>>),
   Obj(<<Prop("jsonrpc", Str("2.0")), Prop("id", Num(2)),
         Prop("error", Obj(<<Prop("code", Num(-32601)), Prop("message", Null)>>))>>)}

InitSend ==
  /\ InitWith({NoConfig}, {SampleTable}, {Undef})
  /\ InitTransport({"Transport"}, Outputs, {{}})
  /\ InitHosting

NextSend ==
  \/ Start
  \/ Close
  \/ \E message \in OutMessages : Send(message)

SpecSend == InitSend /\ [][NextSend]_vars

InitStdio ==
  /\ InitWith({NoConfig}, {SampleTable}, {Undef})
  /\ InitTransport(Variants, Outputs, {{}, {1}, {2}})
  /\ InitHosting

NextStdio ==
  \/ \E h \in Handlers : OnMessage(h)
  \/ Start
  \/ \E text \in Lines : InputLine(text)
  \/ Close

SpecStdio == InitStdio /\ [][NextStdio]_vars

-----------------------------------------------------------------------------
(* prompts/get on a fresh server, over every prompt name and argument set *)

GenerateEvent(t, name) == [type |-> "generatePrompt", time |-> t, url |-> <<name>>]

\* a prompts/get request arrives: the handler runs to its end
GetPrompt(c, r) ==
  /\ pc[c] = "idle"
  /\ ncalls < MaxCalls
  /\ ncalls' = ncalls + 1
  /\ req' = [req EXCEPT ![c] = r]
  /\ LET ran == PromptTry(promptsModule, r.name, r.arguments)
     IN /\ events' = [events EXCEPT ![c] =
                        IF ran.generated THEN Append(@, GenerateEvent(now, r.name)) ELSE @]
        /\ Settle(c, PromptHandled(ran.outcome))
  /\ UNCHANGED <<now, config, lastRequestTime, players_def, env, wakeAt, resp, stamps,
                 upstream>>
  /\ UNCHANGED <<transport, hosting>>

PromptNames == {"fantasy_analyzer", "tuesday_summary", "weekly_recap"}

PromptArgValues(key) ==
  CASE key = "league_id" -> {Undef, Str(DEFAULT_LEAGUE_ID)}
    [] key = "analysis_type" ->
         {Undef, Str("roster_analysis"), Str("matchup_analysis"), Str("power_ranking")}
    [] key = "summary_type" -> {Undef, Str("regular_summary")}
    [] key = "week" -> {Undef, Str("3")}

PromptArguments ==
  {Undef} \cup
  {Payload(<<Prop("league_id", l), Prop("analysis_type", a), Prop("summary_type", s),
             Prop("week", w)>>) :
      l \in PromptArgValues("league_id"), a \in PromptArgValues("analysis_type"),
      s \in PromptArgValues("summary_type"), w \in PromptArgValues("week")}

GetPromptRequest(name, args) == [name |-> name, arguments |-> args]

PromptRequests == {GetPromptRequest(n, a) : n \in PromptNames, a \in PromptArguments}

InitPrompt ==
  /\ InitWith({NoConfig}, {SampleTable}, {Undef})
  /\ InitTransport({"Transport"}, {"stdout"}, {{}})
  /\ InitHosting

NextPrompt ==
  \/ pc[1] = "idle" /\ \E r \in PromptRequests : GetPrompt(1, r)
  \/ NextRequest(1)

SpecPrompt == InitPrompt /\ [][NextPrompt]_vars

(* prompts/list and prompts/get on either version of the prompts module *)

ListPromptsRequest == [name |-> "prompts/list", arguments |-> Undef]

\* a prompts/list request arrives: the handler returns the listed prompts
ListPrompts(c) ==
  /\ pc[c] = "idle"
  /\ ncalls < MaxCalls
  /\ ncalls' = ncalls + 1
  /\ req' = [req EXCEPT ![c] = ListPromptsRequest]
  /\ LET availablePrompts == getAvailablePrompts(promptsModule)
     IN Settle(c, Return([prompts |->
                           [i \in DOMAIN availablePrompts |->
                              [name |-> availablePrompts[i].name,
                               description |-> availablePrompts[i].description,
                               arguments |-> availablePrompts[i].arguments]]]))
  /\ UNCHANGED <<now, config, lastRequestTime, players_def, env, wakeAt, resp, stamps,
                 events, upstream>>
  /\ UNCHANGED <<transport, hosting>>

RegistryNames == PromptNames \cup {"weekly_summary"}

RegistryRequests ==
  {GetPromptRequest(n, a) : n \in RegistryNames, a \in PromptArguments}

InitRegistry ==
  /\ InitWith({NoConfig}, {SampleTable}, {Undef})
  /\ InitTransport({"Transport"}, {"stdout"}, {{}})
  /\ InitHostingWith(PromptsModules)

NextRegistry ==
  \/ ListPrompts(1)
  \/ pc[1] = "idle" /\ \E r \in RegistryRequests : GetPrompt(1, r)
  \/ NextRequest(1)

SpecRegistry == InitRegistry /\ [][NextRegistry]_vars

-----------------------------------------------------------------------------
(* The HTTP-streaming transport as a state machine *)

\* initialize(port): this.transport = new StreamableHTTPServerTransport({...})
Initialize(port) ==
  /\ httpTransport' = TransportOptions(port) @@ [defined |-> TRUE]
  /\ UNCHANGED <<nhttp, lastHttp, handed>>
  /\ UNCHANGED <<server, transport, imports, apps>>

\* handleRequest(req, res, parsedBody) for a request with the headers of r
HandleRequest(r) ==
  /\ nhttp < MaxHttp
  /\ nhttp' = nhttp + 1
  /\ lastHttp' = [host |-> r.host, origin |-> r.origin,
                  outcome |-> handleRequest(httpTransport, r)]
  /\ handed' = IF handleRequest(httpTransport, r) = "handed" THEN handed + 1 ELSE handed
  /\ UNCHANGED httpTransport
  /\ UNCHANGED <<server, transport, imports, apps>>

HostHeaders ==
  {NoHeader, <<"localhost">>, <<"127.0.0.1">>, <<"evil.example">>}
    \cup {<<"localhost:", p>> : p \in Ports}

OriginHeaders ==
  {NoHeader, <<"http://evil.example">>}
    \cup {<<"http://localhost:", p>> : p \in Ports}
    \cup {<<"http://127.0.0.1:", p>> : p \in Ports}

HttpRequests == {HttpRequest(h, o) : h \in HostHeaders, o \in OriginHeaders}

InitHttpServer ==
  /\ InitWith({NoConfig}, {SampleTable}, {Undef})
  /\ InitTransport({"Transport"}, {"stdout"}, {{}})
  /\ InitHosting

NextHttp ==
  \/ \E port \in Ports : Initialize(port)
  \/ \E r \in HttpRequests : HandleRequest(r)

SpecHttp == InitHttpServer /\ [][NextHttp]_vars

-----------------------------------------------------------------------------
(* MCPController: initialisation at load and on request *)

\* initialize() up to its await: with the flag unset it calls
\* mcpServer.initializeServer() and suspends; with the flag set it returns
\* and the caller goes on to its answer
ControllerInitialize(t) ==
  /\ cpc[t] = "idle"
  /\ IF ~isInitialized
       THEN /\ ninit' = ninit + 1
            /\ cpc' = [cpc EXCEPT ![t] = "awaiting"]
            /\ UNCHANGED cres
       ELSE /\ cpc' = [cpc EXCEPT ![t] = "done"]
            /\ cres' = [cres EXCEPT ![t] = Answer(t)]
            /\ UNCHANGED ninit
  /\ UNCHANGED isInitialized
  /\ UNCHANGED <<server, transport, http, imports, agents>>

\* routes/mcp.ts at load: mcpController.initialize().catch(console.error)
InitializeAtLoad == ControllerInitialize("load")

\* the routes are mounted after the module has loaded
Mounted == cpc["load"] # "idle"

\* handleSSE, handleMessages, getStatus: if (!this.isInitialized) await this.initialize()
HandleSSE == Mounted /\ ControllerInitialize("handleSSE")
HandleMessages == Mounted /\ ControllerInitialize("handleMessages")
GetStatus == Mounted /\ ControllerInitialize("getStatus")

\* healthCheck reports the flag and initialises nothing
HealthCheck ==
  /\ Mounted
  /\ cpc["healthCheck"] = "idle"
  /\ cpc' = [cpc EXCEPT !["healthCheck"] = "done"]
  /\ cres' = [cres EXCEPT !["healthCheck"] =
                IF isInitialized THEN "initialized" ELSE "not initialized"]
  /\ UNCHANGED <<isInitialized, ninit>>
  /\ UNCHANGED <<server, transport, http, imports, agents>>

\* the promise of initializeServer() is fulfilled: initialize() sets the
\* flag and its caller goes on to its answer
InitializeServerResolves(t) ==
  /\ cpc[t] = "awaiting"
  /\ isInitialized' = TRUE
  /\ cpc' = [cpc EXCEPT ![t] = "done"]
  /\ cres' = [cres EXCEPT ![t] = Answer(t)]
  /\ UNCHANGED ninit
  /\ UNCHANGED <<server, transport, http, imports, agents>>

\* the promise of initializeServer() is rejected: the catch block of
\* initialize() logs and rethrows, and the caller's catch answers
InitializeServerRejects(t) ==
  /\ cpc[t] = "awaiting"
  /\ cpc' = [cpc EXCEPT ![t] = "done"]
  /\ cres' = [cres EXCEPT ![t] = Rethrown(t)]
  /\ UNCHANGED <<isInitialized, ninit>>
  /\ UNCHANGED <<server, transport, http, imports, agents>>

InitControllerApp ==
  /\ InitWith({NoConfig}, {SampleTable}, {Undef})
  /\ InitTransport({"Transport"}, {"stdout"}, {{}})
  /\ InitHosting

NextController ==
  \/ InitializeAtLoad
  \/ HandleSSE
  \/ HandleMessages
  \/ GetStatus
  \/ HealthCheck
  \/ \E t \in Tasks \ {"healthCheck"} : InitializeServerResolves(t)
  \/ \E t \in Tasks \ {"healthCheck"} : InitializeServerRejects(t)

SpecController == InitControllerApp /\ [][NextController]_vars

-----------------------------------------------------------------------------
(* SleeperAgentController and BaseAgent.run *)

\* the finally block of run after a throw inside the try
RunThrows(r, e) ==
  /\ isRunning' = FALSE
  /\ aout' = [aout EXCEPT ![r] = Throw(e)]
  /\ apc' = [apc EXCEPT ![r] = "done"]
  /\ UNCHANGED memory

\* run with the isRunning test moved inside the try block: the refusal
\* passes through finally
RunCheckInsideTry(r) ==
  IF isRunning
    THEN /\ aout' = [aout EXCEPT ![r] = AlreadyRunning]
         /\ apc' = [apc EXCEPT ![r] = "done"]
         /\ isRunning' = FALSE
         /\ UNCHANGED memory
    ELSE /\ isRunning' = TRUE
         /\ apc' = [apc EXCEPT ![r] = "perceive"]
         /\ UNCHANGED <<aout, memory>>

\* BaseAgent.run up to its first await
Run(r) ==
  IF isRunning
    THEN /\ aout' = [aout EXCEPT ![r] = AlreadyRunning]
         /\ apc' = [apc EXCEPT ![r] = "done"]
         /\ UNCHANGED <<isRunning, memory>>
    ELSE /\ isRunning' = TRUE
         /\ apc' = [apc EXCEPT ![r] = "perceive"]
         /\ UNCHANGED <<aout, memory>>

\* processQuery: 400 without a query, else getAgent().run(query, context)
ProcessQuery(r, query) ==
  /\ apc[r] = "idle"
  /\ ain' = [ain EXCEPT ![r] = query]
  /\ IF ~Truthy(query)
       THEN /\ aout' = [aout EXCEPT ![r] = Status400]
            /\ apc' = [apc EXCEPT ![r] = "done"]
            /\ UNCHANGED <<agent, isRunning, memory>>
       ELSE /\ agent' = TRUE
            /\ Run(r)
  /\ UNCHANGED <<server, transport, http, imports, controller>>

\* await this.perceive(input, context): input.trim() of a value that is
\* not a string throws
Perceive(r) ==
  /\ apc[r] = "perceive"
  /\ IF ain[r].tag = "string"
       THEN /\ apc' = [apc EXCEPT ![r] = "reason"]
            /\ UNCHANGED <<isRunning, memory, aout>>
       ELSE RunThrows(r, JsError("TypeError", <<"input.trim is not a function">>))
  /\ UNCHANGED <<agent, ain>>
  /\ UNCHANGED <<server, transport, http, imports, controller>>

\* await this.reason(perception): the model call answers or fails
Reason(r) ==
  /\ apc[r] = "reason"
  /\ \/ /\ apc' = [apc EXCEPT ![r] = "act"]
        /\ UNCHANGED <<isRunning, memory, aout>>
     \/ RunThrows(r, JsError("Error", <<"reason failed">>))
  /\ UNCHANGED <<agent, ain>>
  /\ UNCHANGED <<server, transport, http, imports, controller>>

\* await this.act(reasoning), then updateMemory, return and finally
Act(r, response) ==
  /\ apc[r] = "act"
  /\ \/ /\ memory' = updateMemory(memory, ain[r], response)
        /\ isRunning' = FALSE
        /\ aout' = [aout EXCEPT ![r] = Return(response)]
        /\ apc' = [apc EXCEPT ![r] = "done"]
     \/ RunThrows(r, JsError("Error", <<"act failed">>))
  /\ UNCHANGED <<agent, ain>>
  /\ UNCHANGED <<server, transport, http, imports, controller>>

QueryInputs == {Undef, Str("q1"), Str("q2"), Num(5)}
AgentResponses == {Str("a1")}

InitAgentApp ==
  /\ InitWith({NoConfig}, {SampleTable}, {Undef})
  /\ InitTransport({"Transport"}, {"stdout"}, {{}})
  /\ InitHttp
  /\ promptsModule = PromptsTuesday
  /\ InitController
  /\ InitAgentWith({<<>>, FullMemory})

NextAgent ==
  \/ \E r \in Queries, query \in QueryInputs : ProcessQuery(r, query)
  \/ \E r \in Queries : Perceive(r)
  \/ \E r \in Queries : Reason(r)
  \/ \E r \in Queries, response \in AgentResponses : Act(r, response)

SpecAgent == InitAgentApp /\ [][NextAgent]_vars

-----------------------------------------------------------------------------
(* Properties *)

Settled(c) == pc[c] = "done"
Failed(c) == Settled(c) /\ Len(errors[c]) = 1 /\ results[c] = <<>>
Succeeded(c) == Settled(c) /\ Len(results[c]) = 1 /\ errors[c] = <<>>
FailedWith(c, code) ==
  Failed(c) /\ errors[c][1].class = "McpError" /\ errors[c][1].code = code

\* C1: with concurrent callers, any two consecutive stamps of lastRequestTime
\* are at least rateLimitDelay ms apart
ConcurrentStampGap ==
  \A i \in DOMAIN stamps, j \in DOMAIN stamps :
    j = i + 1 => stamps[j] - stamps[i] >= config.rateLimitDelay

\* C2: when calls of enforceRateLimit are strictly sequential, the stamp of
\* call i+1 is at least rateLimitDelay ms later than the stamp of call i
SequentialStampGap ==
  \A i \in 1..(Len(stamps) - 1) : stamps[i] + config.rateLimitDelay <= stamps[i + 1]

\* a call that had to wait for its turn has stamped after an earlier stamp
WitnessSequentialStampGap ==
  /\ Len(stamps) >= 2
  /\ \E c \in Callers : wakeAt[c] > 0 /\ pc[c] \in {"stamped", "fetching", "done"}

\* the single result a call returned, and the single error it threw
ResultOf(c) == results[c][1]
ErrorOf(c) == errors[c][1]

\* C3: every tools/call ends with exactly one outcome: one result envelope
\* holding one text block, or one error, never both
ExactlyOneOutcome ==
  \A c \in Callers :
    /\ Settled(c) => Len(results[c]) + Len(errors[c]) = 1
    /\ ~Settled(c) => results[c] = <<>> /\ errors[c] = <<>>
    /\ \A i \in DOMAIN results[c] :
         /\ Len(results[c][i].content) = 1
         /\ results[c][i].content[1].type = "text"
         /\ results[c][i].content[1].text.tag = "string"

\* an enriched roster call has returned its envelope
WitnessExactlyOneOutcome ==
  Succeeded(1) /\ req[1].name = "get_league_rosters" /\ resp[1].kind = "ok"

\* C4: every error escaping tools/call is an McpError of kind MethodNotFound,
\* InvalidParams or InternalError
EveryErrorTyped ==
  \A c \in Callers : \A i \in DOMAIN errors[c] :
    errors[c][i].class = "McpError" /\ errors[c][i].code \in ErrorCodes

\* C5: a tool name outside the catalog fails with MethodNotFound whatever the
\* arguments are
UnknownToolMethodNotFound ==
  \A c \in Callers :
    (Settled(c) /\ req[c].name \notin ToolNames) =>
      /\ FailedWith(c, "MethodNotFound")
      /\ ErrorOf(c).message = <<"Unknown tool: ", req[c].name>>
      /\ events[c] = <<>>

\* an unknown tool was called with arguments no tool accepts
WitnessUnknownToolMethodNotFound ==
  /\ Settled(1) /\ req[1].name = "nonexistent_tool"
  /\ req[1].arguments.tag = "object"
  /\ Get(req[1].arguments, "league_id") = Num(7)
  /\ Get(req[1].arguments, "week") = Num(0)

\* what the declared shapes require of a field value
Violates(t, v) ==
  \/ v.tag = "undefined"
  \/ t.type = "string" /\ v.tag # "string"
  \/ t.type = "number" /\ v.tag # "number"
  \/ t.type = "number" /\ v.tag = "number" /\ t.min # <<>> /\ v.n < t.min[1]
  \/ t.type = "number" /\ v.tag = "number" /\ t.max # <<>> /\ v.n > t.max[1]
  \/ t.type = "enum" /\ v.tag # "string"
  \/ t.type = "enum" /\ v.tag = "string" /\ \A i \in DOMAIN t.values : t.values[i] # v.s

\* the fields of the arguments object that violate the tool's schema
OffendingFields(r) ==
  {SchemaOf(r.name)[i].key : i \in
     {j \in DOMAIN SchemaOf(r.name) :
        Violates(SchemaOf(r.name)[j].schema, Get(r.arguments, SchemaOf(r.name)[j].key))}}

\* the message names the field: "<field>: <reason>"
Names(message, f) ==
  \E i \in 1..(Len(message) - 1) : message[i] = f /\ message[i + 1] = ": "

PassedValidation(c) == pc[c] \in {"waiting", "stamped", "fetching"} \/ events[c] # <<>>

\* C7: get_league_matchups accepts week exactly when 1 <= week <= 18; other
\* values fail with InvalidParams before any upstream request
WeekAcceptedIffInRange ==
  \A c \in Callers :
    (/\ pc[c] # "idle"
     /\ req[c].name = "get_league_matchups"
     /\ req[c].arguments.tag = "object"
     /\ Get(req[c].arguments, "league_id").tag = "string") =>
      LET week == Get(req[c].arguments, "week")
      IN IF week.tag = "number" /\ 1 <= week.n /\ week.n <= 18
         THEN PassedValidation(c) /\ ~FailedWith(c, "InvalidParams")
         ELSE FailedWith(c, "InvalidParams") /\ events[c] = <<>> /\ stamps = <<>>

\* the boundary week 18 went through to the upstream GET
WitnessWeekAcceptedIffInRange ==
  /\ pc[1] = "fetching" /\ req[1].name = "get_league_matchups"
  /\ Get(req[1].arguments, "week") = Num(18)

\* C8 as stated: a non-2xx answer fails with InternalError and the message
\* "API request failed: <status> <statusText>"
StatusErrorBareMessage ==
  \A c \in Callers :
    (Settled(c) /\ resp[c].kind = "status") =>
      /\ FailedWith(c, "InternalError")
      /\ ErrorOf(c).message =
           <<"API request failed: ", ToString(resp[c].status), " ", resp[c].statusText>>

\* C8 amended: a non-2xx answer fails with InternalError and the message
\* "Failed to fetch from Sleeper API: API request failed: <status> <statusText>";
\* no value is returned
StatusErrorWrappedMessage ==
  \A c \in Callers :
    (Settled(c) /\ resp[c].kind = "status") =>
      /\ FailedWith(c, "InternalError")
      /\ ErrorOf(c).message =
           <<"Failed to fetch from Sleeper API: ", "API request failed: ",
             ToString(resp[c].status), " ", resp[c].statusText>>

\* a call was answered 404
WitnessStatusErrorWrappedMessage ==
  Settled(1) /\ resp[1].kind = "status" /\ resp[1].status = 404

\* the upstream body of a call that was answered with a list, and the value
\* the call returned in its text block
BodyOf(c) == resp[c].data.items
ReturnedData(c) == ResultOf(c).content[1].text.json

\* the name the player table gives an id, or the id itself
LookupName(table, id) ==
  LET named == {i \in DOMAIN table.props :
                  /\ table.props[i].key = id.s
                  /\ \E k \in DOMAIN table.props[i].val.props :
                       /\ table.props[i].val.props[k].key = "full_name"
                       /\ table.props[i].val.props[k].val.tag = "string"
                       /\ table.props[i].val.props[k].val.s # ""}
  IN IF named = {} THEN id
     ELSE Get(table.props[CHOOSE i \in named : TRUE].val, "full_name")

ListFields == {"players", "starters", "keepers"}

\* no roster of the body holds a non-list value in a list field
ListFieldsWellFormed(body, fields) ==
  \A i \in DOMAIN body : \A f \in fields :
    body[i].tag = "object" =>
      (~Truthy(Get(body[i], f)) \/ Get(body[i], f).tag = "array")

\* C9: roster enrichment keeps length and order of players, starters and
\* keepers; element i becomes the full_name of its record, or stays the id
RosterListsEnriched ==
  \A c \in Callers :
    (/\ Settled(c) /\ req[c].name = "get_league_rosters"
     /\ resp[c].kind = "ok" /\ resp[c].data.tag = "array") =>
      /\ ListFieldsWellFormed(BodyOf(c), ListFields) => Succeeded(c)
      /\ Succeeded(c) =>
           /\ ReturnedData(c).tag = "array"
           /\ Len(ReturnedData(c).items) = Len(BodyOf(c))
           /\ \A i \in DOMAIN BodyOf(c) : \A f \in ListFields :
                (BodyOf(c)[i].tag = "object" /\ Get(BodyOf(c)[i], f).tag = "array") =>
                  LET input == Get(BodyOf(c)[i], f).items
                      output == Get(ReturnedData(c).items[i], f)
                  IN /\ output.tag = "array"
                     /\ Len(output.items) = Len(input)
                     /\ \A j \in DOMAIN input :
                          output.items[j] = LookupName(players_def, input[j])

\* players = ["4046", "CLE"] came back as ["Patrick Mahomes", "CLE"]
WitnessRosterListsEnriched ==
  /\ Succeeded(1) /\ req[1].name = "get_league_rosters"
  /\ resp[1].kind = "ok" /\ resp[1].data.tag = "array" /\ Len(BodyOf(1)) = 1
  /\ Get(BodyOf(1)[1], "players") = Arr(<<Str("4046"), Str("CLE")>>)
  /\ Get(ReturnedData(1).items[1], "players") = Arr(<<Str("Patrick Mahomes"), Str("CLE")>>)

\* C10: in the returned starters_points mapping, the resolved name of
\* starters[i] is associated with exactly starters_points[i], for every i
StartersPointsPairedByIndex ==
  \A c \in Callers :
    (/\ Succeeded(c) /\ req[c].name = "get_league_matchups"
     /\ resp[c].kind = "ok" /\ resp[c].data.tag = "array") =>
      \A i \in DOMAIN BodyOf(c) :
        (/\ BodyOf(c)[i].tag = "object"
         /\ Get(BodyOf(c)[i], "starters").tag = "array"
         /\ Get(BodyOf(c)[i], "starters_points").tag = "array") =>
          LET starters == Get(BodyOf(c)[i], "starters").items
              points == Get(BodyOf(c)[i], "starters_points").items
              mapping == Get(ReturnedData(c).items[i], "starters_points")
          IN \A j \in DOMAIN starters :
               j \in DOMAIN points =>
                 /\ mapping.tag = "object"
                 /\ Get(mapping, LookupName(players_def, starters[j]).s) = points[j]

\* the matchups of a call's upstream body that hold starters and starters_points
\* as lists
MatchupsWithLists(c) ==
  {i \in DOMAIN BodyOf(c) :
     /\ BodyOf(c)[i].tag = "object"
     /\ Get(BodyOf(c)[i], "starters").tag = "array"
     /\ Get(BodyOf(c)[i], "starters_points").tag = "array"}

\* C11: a matchup whose starters and starters_points differ in length is an
\* error: the call neither answers with a default score for the missing
\* positions nor drops the surplus scores
StartersLengthMismatchRejected ==
  \A c \in Callers :
    (/\ Settled(c) /\ req[c].name = "get_league_matchups"
     /\ resp[c].kind = "ok" /\ resp[c].data.tag = "array") =>
      \A i \in MatchupsWithLists(c) :
        LET starters == Get(BodyOf(c)[i], "starters").items
            points == Get(BodyOf(c)[i], "starters_points").items
        IN (Len(starters) > 0 /\ Len(starters) # Len(points)) => Failed(c)

\* C12: players_points is rewritten without losing an entry: the returned
\* mapping has as many entries as the upstream one and holds every score
\* under the resolved name of its id, also when two ids resolve to one name
PlayersPointsKeepsEveryEntry ==
  \A c \in Callers :
    (/\ Succeeded(c) /\ req[c].name = "get_league_matchups"
     /\ resp[c].kind = "ok" /\ resp[c].data.tag = "array") =>
      \A i \in DOMAIN BodyOf(c) :
        (/\ BodyOf(c)[i].tag = "object"
         /\ Get(BodyOf(c)[i], "players_points").tag = "object") =>
          LET input == Get(BodyOf(c)[i], "players_points").props
              output == Get(ReturnedData(c).items[i], "players_points")
          IN /\ output.tag = "object"
             /\ Len(output.props) = Len(input)
             /\ \A j \in DOMAIN input :
                  Get(output, LookupName(players_def, Str(input[j].key)).s) = input[j].val

\* a call answered with a body by the upstream, on one of the two enriching tools
EnrichedCall(c) ==
  /\ Settled(c) /\ req[c].name \in {"get_league_rosters", "get_league_matchups"}
  /\ resp[c].kind = "ok"

\* C13: after get_league_rosters or get_league_matchups has run, the body
\* received from the upstream, with every list and mapping nested in it,
\* still holds the identifiers and values it arrived with
UpstreamNotMutated ==
  \A c \in Callers : EnrichedCall(c) => upstream[c] = resp[c].data

\* a matchup came back with names in starters and in both score mappings,
\* and the body in memory still holds the ids
WitnessUpstreamNotMutated ==
  /\ Succeeded(1) /\ req[1].name = "get_league_matchups"
  /\ resp[1].kind = "ok" /\ resp[1].data.tag = "array" /\ Len(BodyOf(1)) = 1
  /\ Get(BodyOf(1)[1], "starters") = Arr(<<Str("4046")>>)
  /\ Get(ReturnedData(1).items[1], "starters") = Arr(<<Str("Patrick Mahomes")>>)
  /\ Get(ReturnedData(1).items[1], "starters_points").tag = "object"
  /\ Get(ReturnedData(1).items[1], "players_points").tag = "object"
  /\ Get(upstream[1].items[1], "starters") = Arr(<<Str("4046")>>)

\* what the callbacks left in memory is what the handler returned
MemoryAgreesWithReturn ==
  \A c \in Callers :
    EnrichedCall(c) =>
      LET m == HandlerMemory(players_def, req[c].name, resp[c].data)
      IN /\ m.thrown <=> Failed(c)
         /\ Succeeded(c) =>
              ReturnedData(c) = Arr([i \in DOMAIN m.returned |-> Deep(m.heap, m.returned[i])])

\* the line is the text of a JSON object whose jsonrpc member is the string "2.0"
StrictJsonRpc(text) ==
  LET parsed == JSONParse(text)
  IN /\ parsed.kind = "return"
     /\ parsed.value.tag = "object"
     /\ Get(parsed.value, "jsonrpc") = Str("2.0")

\* C14: only lines that are JSON objects with jsonrpc = "2.0" reach a message
\* handler; any other line is not forwarded, not reported through the error
\* handlers, and raises nothing out of the line listener
OnlyJsonRpcForwarded ==
  /\ \A h \in Handlers : \A i \in DOMAIN delivered[h] : StrictJsonRpc(delivered[h][i])
  /\ \A i \in DOMAIN reported : StrictJsonRpc(reported[i])
  /\ \A i \in DOMAIN raised : StrictJsonRpc(raised[i])

\* a line arrives in this step
LineArrives == nlines' = nlines + 1

\* C15: on a started transport (the class implementing Transport), a valid
\* line is delivered to every registered message handler exactly once, after
\* the lines delivered before it, also when an earlier handler throws
ValidLineOncePerHandler ==
  [][(LineArrives /\ variant = "Transport" /\ started /\ StrictJsonRpc(lastLine')) =>
       \A h \in Range(messageHandlers) :
         delivered'[h] = Append(delivered[h], lastLine')]_vars

\* C16: once close() has returned, a line arriving on the input is forwarded
\* to no message handler; the output stream is ended only when it is neither
\* the process's stdout nor its stderr
ClosedForwardsNothing ==
  [][/\ closed => delivered' = delivered
     /\ ended' => writer \notin {"stdout", "stderr"}]_vars

\* the prompts with a definition, and the arguments each flags required
DefinedPrompts == {"fantasy_analyzer", "tuesday_summary"}
RequiredOf(name) ==
  CASE name = "fantasy_analyzer" -> {"league_id", "analysis_type"}
    [] name = "tuesday_summary" -> {"league_id", "summary_type"}
    [] OTHER -> {}

\* the required arguments of the call's prompt that its request does not supply
MissingArgs(c) ==
  {a \in RequiredOf(req[c].name) :
     req[c].arguments.tag # "object" \/ ~HasKey(req[c].arguments, a)}

\* generatePrompt ran for the call
Generated(c) == \E i \in DOMAIN events[c] : events[c][i].type = "generatePrompt"

\* C17: prompts/get fails with MethodNotFound for a name without definition,
\* and with InvalidParams naming a missing field when a required argument is
\* absent; in both cases no prompt text is generated
PromptRejectedBeforeGeneration ==
  \A c \in Callers :
    Settled(c) =>
      /\ req[c].name \notin DefinedPrompts =>
           /\ FailedWith(c, "MethodNotFound")
           /\ ~Generated(c) /\ results[c] = <<>>
      /\ (req[c].name \in DefinedPrompts /\ MissingArgs(c) # {}) =>
           /\ FailedWith(c, "InvalidParams")
           /\ \E a \in MissingArgs(c) : a \in Range(ErrorOf(c).message)
           /\ ~Generated(c) /\ results[c] = <<>>

\* tuesday_summary was asked for with league_id only
WitnessPromptRejectedBeforeGeneration ==
  /\ Settled(1) /\ req[1].name = "tuesday_summary"
  /\ MissingArgs(1) = {"summary_type"}
  /\ FailedWith(1, "InvalidParams")
  /\ ErrorOf(1).message = <<"Missing required argument: ", "summary_type">>

\* C18: when several required arguments are missing, the InvalidParams
\* message names every one of them
PromptErrorNamesEveryMissing ==
  \A c \in Callers :
    (Settled(c) /\ req[c].name \in DefinedPrompts /\ MissingArgs(c) # {}) =>
      /\ FailedWith(c, "InvalidParams")
      /\ \A a \in MissingArgs(c) : a \in Range(ErrorOf(c).message)

\* the avatar_url member of the object a get_avatar call returned, as tokens
AvatarUrlOf(c) == Get(ReturnedData(c), "avatar_url").tokens

\* C19: get_avatar answers cdnBaseUrl + "/avatars/thumbs/" + avatar_id for
\* size "thumb" and cdnBaseUrl + "/avatars/" + avatar_id for size "full",
\* for every avatar_id; with any other size it fails with InvalidParams
AvatarUrlFromArguments ==
  \A c \in Callers :
    (Settled(c) /\ req[c].name = "get_avatar") =>
      LET args == req[c].arguments
          id == Member(args, "avatar_id")
          size == Member(args, "size")
      IN /\ (id.tag = "string" /\ size = Str("thumb")) =>
              /\ Succeeded(c)
              /\ AvatarUrlOf(c) = <<config.cdnBaseUrl, "/avatars/thumbs/", id.s>>
         /\ (id.tag = "string" /\ size = Str("full")) =>
              /\ Succeeded(c)
              /\ AvatarUrlOf(c) = <<config.cdnBaseUrl, "/avatars/", id.s>>
         /\ size \notin {Str("thumb"), Str("full")} => FailedWith(c, "InvalidParams")

\* avatar abc123 was asked for as a thumbnail
WitnessAvatarUrlFromArguments ==
  /\ Succeeded(1) /\ req[1].name = "get_avatar"
  /\ req[1].arguments = Obj(<<Prop("avatar_id", Str("abc123")), Prop("size", Str("thumb"))>>)
  /\ AvatarUrlOf(1) = <<"https://sleepercdn.com", "/avatars/thumbs/", "abc123">>

\* C20: with no SLEEPER_LEAGUE_ID set, every get_league_id call returns the
\* fallback identifier "1255621170552655872", whatever its arguments and
\* whatever calls ran before it or run beside it
LeagueIdAlwaysFallback ==
  \A c \in Callers :
    (Settled(c) /\ req[c].name = "get_league_id" /\ ~Truthy(env)) =>
      /\ Succeeded(c)
      /\ ReturnedData(c) = Obj(<<Prop("league_id", Str("1255621170552655872"))>>)

\* after an upstream-backed call has stamped the rate limiter, two
\* get_league_id calls with different arguments returned the same value
WitnessLeagueIdAlwaysFallback ==
  /\ Succeeded(1) /\ Succeeded(2)
  /\ req[1].name = "get_league_id" /\ req[2].name = "get_league_id"
  /\ req[1].arguments # req[2].arguments
  /\ results[1] = results[2]
  /\ Len(stamps) > 0

\* C21: a request is handed to the dispatcher only if its Host and its Origin
\* are in the allow-lists the transport was configured with
OnlyAllowedHandedOn ==
  [][handed' = handed + 1 =>
       /\ lastHttp'.host \in httpTransport.allowedHosts
       /\ lastHttp'.origin \in httpTransport.allowedOrigins]_vars

\* the request of c names a case that calls makeApiRequest and carries valid arguments
UpstreamCall(c) ==
  /\ req[c].name \in UpstreamTools
  /\ ZodParse(SchemaOf(req[c].name), req[c].arguments).ok

\* C22: an upstream-backed call with valid arguments stamps lastRequestTime
\* once and then issues one GET, in that order; once the GET is issued
\* or the call has settled, with a result or with an error, its events are
\* exactly that stamp and that GET, and lastRequestTime is not behind the stamp
StampThenOneGet ==
  \A c \in Callers :
    UpstreamCall(c) =>
      /\ Len(events[c]) <= 2
      /\ Len(events[c]) >= 1 =>
           /\ events[c][1].type = "stamp"
           /\ lastRequestTime >= events[c][1].time
      /\ Len(events[c]) = 2 =>
           /\ events[c][2].type = "GET"
           /\ events[c][2].time >= events[c][1].time
      /\ pc[c] = "waiting" => events[c] = <<>>
      /\ pc[c] = "stamped" => Len(events[c]) = 1
      /\ pc[c] \in {"fetching", "done"} => Len(events[c]) = 2

\* a call that waited for its turn, stamped, issued its GET and failed on it
WitnessStampThenOneGet ==
  \E c \in Callers :
    /\ UpstreamCall(c)
    /\ Failed(c)
    /\ Len(events[c]) = 2
    /\ wakeAt[c] > 0
    /\ lastRequestTime >= events[c][1].time

\* the request of c has just been received
Received(c) == pc[c] = "idle" /\ pc'[c] # "idle"

\* C23: a call of get_league_id, get_avatar or get_player settles in the step
\* that receives it, with a result or with an error, whatever the rate
\* limiter's state: it never waits, never stamps lastRequestTime, issues no
\* GET, and leaves the timers of the other calls as they are
LocalToolsBypassRateLimiter ==
  [][\A c \in Callers :
       /\ req'[c].name \in LocalTools =>
            /\ events'[c] = <<>>
            /\ pc'[c] \in {"idle", "done"}
       /\ Received(c) /\ req'[c].name \in LocalTools =>
            /\ pc'[c] = "done"
            /\ Len(results'[c]) + Len(errors'[c]) = 1
            /\ lastRequestTime' = lastRequestTime
            /\ stamps' = stamps
            /\ wakeAt' = wakeAt
            /\ now' = now]_vars

\* a get_player call has failed, with no event, while an upstream-backed call
\* is waiting for its turn in the rate limiter
WitnessLocalToolsBypassRateLimiter ==
  \E c, d \in Callers :
    /\ req[c].name = "get_player"
    /\ FailedWith(c, "InvalidParams")
    /\ events[c] = <<>>
    /\ pc[d] = "waiting"
    /\ now < wakeAt[d]

\* C24: a call enters the wait of enforceRateLimit only from the start of the
\* call and only when less than rateLimitDelay ms have passed since
\* lastRequestTime, its timer is set to at most rateLimitDelay ms, on a
\* fresh instance and whenever rateLimitDelay ms have passed it does not
\* wait, and a call that waits goes on to its stamp
RateLimitReturns ==
  /\ [][\A c \in Callers :
          /\ pc'[c] = "waiting" /\ pc[c] # "waiting" =>
               /\ pc[c] = "idle"
               /\ now - lastRequestTime < config.rateLimitDelay
               /\ wakeAt'[c] - now <= config.rateLimitDelay
          /\ Received(c) /\ req'[c].name = "get_league"
               /\ (lastRequestTime = 0 \/ now - lastRequestTime >= config.rateLimitDelay) =>
               pc'[c] = "stamped"]_vars
  /\ \A c \in Callers : (pc[c] = "waiting") ~> (pc[c] = "stamped")

\* a call that waited has stamped, and a call on the fresh instance has stamped
\* without waiting
WitnessRateLimitReturns ==
  \E c \in Callers :
    /\ pc[c] = "stamped"
    /\ wakeAt[c] > 0
    /\ Len(stamps) >= 2
    /\ stamps[1] = StartTime

\* the request names no case of the switch, or its arguments violate the
\* schema of the case
Invalid(r) ==
  \/ r.name \notin ToolNames
  \/ /\ r.name # "get_league_id"
     /\ (r.arguments.tag # "object" \/ OffendingFields(r) # {})

\* C25: a call with an unknown tool name or with arguments that fail the
\* schema fails in the step that receives it, with MethodNotFound or
\* InvalidParams: it never enters the rate limiter, lastRequestTime and the
\* stamps stay as they were, and it issues no GET
ValidationBeforeRateLimiter ==
  [][\A c \in Callers :
       /\ Invalid(req'[c]) =>
            /\ events'[c] = <<>>
            /\ pc'[c] \in {"idle", "done"}
       /\ Received(c) /\ Invalid(req'[c]) =>
            /\ pc'[c] = "done"
            /\ results'[c] = <<>>
            /\ Len(errors'[c]) = 1
            /\ errors'[c][1].class = "McpError"
            /\ errors'[c][1].code \in {"MethodNotFound", "InvalidParams"}
            /\ lastRequestTime' = lastRequestTime
            /\ stamps' = stamps
            /\ wakeAt' = wakeAt]_vars

\* a call with invalid arguments and a call with an unknown name have failed
\* after an upstream-backed call has stamped, with the stamp as it was
WitnessValidationBeforeRateLimiter ==
  \E c, d \in Callers :
    /\ c # d
    /\ FailedWith(c, "InvalidParams") /\ req[c].name = "get_league_matchups"
    /\ FailedWith(d, "MethodNotFound")
    /\ events[c] = <<>> /\ events[d] = <<>>
    /\ Len(stamps) = 1
    /\ lastRequestTime = stamps[1]

\* the names prompts/list returned to c
ListedTo(c) == {ResultOf(c).prompts[i].name : i \in DOMAIN ResultOf(c).prompts}

\* generatePrompt refuses the name
UnknownToGenerate(name) ==
  generatePrompt(promptsModule, name, Undef) =
    Throw(JsError("Error", <<"Unknown prompt: ", name>>))

\* C26: the names prompts/list returns are the names generatePrompt accepts:
\* prompts/get of a listed name does not fail on "Unknown prompt" in
\* generatePrompt, and prompts/get of a name generatePrompt accepts is not
\* refused with MethodNotFound
PromptRegistryConsistent ==
  \A c \in Callers :
    /\ Succeeded(c) /\ req[c] = ListPromptsRequest =>
         ListedTo(c) = {n \in RegistryNames : ~UnknownToGenerate(n)}
    /\ Failed(c) /\ req[c] # ListPromptsRequest =>
         /\ Generated(c) =>
              ErrorOf(c).message # <<"Failed to generate prompt: ", "Unknown prompt: ",
                                     req[c].name>>
         /\ ~UnknownToGenerate(req[c].name) => ~FailedWith(c, "MethodNotFound")

\* C27: prompts/get of a defined prompt with every required argument
\* supplied returns the generated text, whatever the values and whichever
\* optional arguments are given
CompleteArgumentsGenerate ==
  \A c \in Callers :
    (/\ Settled(c)
     /\ req[c].name \in DefinedPrompts
     /\ MissingArgs(c) = {}) =>
      /\ Succeeded(c)
      /\ Generated(c)
      /\ Len(ResultOf(c).messages) = 1

\* a task of the controller has been answered with the error initialize() rethrew
Rejected(t) == cpc[t] = "awaiting" /\ cpc'[t] = "done" /\ cres'[t] = Rethrown(t)

\* when initializeServer() fails, isInitialized stays as it was and the
\* error reaches the caller of initialize()
FailedInitializeRethrows ==
  [][\A t \in Tasks :
       cpc[t] = "awaiting" /\ cpc'[t] = "done" /\ ~isInitialized' =>
         isInitialized' = isInitialized /\ Rejected(t)]_vars

\* C28: for one MCPController, mcpServer.initializeServer() is called at
\* most once, however the initialize() call at load and the handleSSE,
\* handleMessages and getStatus requests interleave
InitializeServerAtMostOnce == ninit <= 1

\* the run of query r starts in this step: run is called
RunCalled(r) == apc[r] = "idle" /\ apc'[r] # "idle" /\ Truthy(ain'[r])

\* the run of query r ends in this step
RunEnds(r) == InProgress(r) /\ apc'[r] = "done"

\* C29: at most one run of the agent is in progress, and isRunning says
\* whether one is; a run called while another is in progress fails with
\* "Agent is already running" and leaves isRunning set and memory as it
\* was; when a run ends, by return or by throw, isRunning is false
RunMutuallyExclusive ==
  [][/\ Cardinality({r \in Queries : apc'[r] \in {"perceive", "reason", "act"}}) <= 1
     /\ isRunning' = (\E r \in Queries : apc'[r] \in {"perceive", "reason", "act"})
     /\ \A r \in Queries :
          /\ RunCalled(r) /\ (\E o \in Queries : InProgress(o)) =>
               /\ aout'[r] = AlreadyRunning
               /\ apc'[r] = "done"
               /\ isRunning' /\ isRunning
               /\ memory' = memory
               /\ \A o \in Queries \ {r} : apc'[o] = apc[o] /\ aout'[o] = aout[o]
          /\ RunEnds(r) =>
               /\ ~isRunning'
               /\ aout'[r].kind \in {"return", "throw"}
               /\ aout'[r] # AlreadyRunning]_vars

\* a run is in progress past its first await, a second was refused with
\* "Agent is already running", and a third has ended by a throw of its own
WitnessRunMutuallyExclusive ==
  \E r1, r2, r3 \in Queries :
    /\ InProgress(r1)
    /\ aout[r2] = AlreadyRunning
    /\ aout[r3].kind = "throw" /\ aout[r3] # AlreadyRunning
    /\ ~(apc[r1] = "perceive")

\* send() is called in this step
SendCalled == nsent' = nsent + 1

\* the number of line breaks in a chunk
RECURSIVE LineBreaks(_)
LineBreaks(chunk) ==
  IF chunk = <<>> THEN 0
  ELSE (IF Head(chunk) = NL THEN 1 ELSE 0) + LineBreaks(Tail(chunk))

\* the chunk is one line: the text of the message, then the only line break
OneLineOf(chunk, message) ==
  /\ chunk = Serialize(message) \o <<NL>>
  /\ LineBreaks(chunk) = 1
  /\ chunk[Len(chunk)] = NL
  /\ Len(chunk) > 1

\* C30: the transport writes only in send() on a started transport: send()
\* before start() or after close() fails with "Transport not started" and
\* writes nothing, a send() that fails writes nothing, and a send() that
\* succeeds writes one chunk, the JSON text of its message and one newline
WritesOnlyWhileStarted ==
  [][/\ ~SendCalled => written' = written
     /\ SendCalled =>
          /\ ~started => sendOutcome' = NotStarted /\ written' = written
          /\ sendOutcome' = NotStarted => ~started
          /\ sendOutcome'.kind = "throw" => written' = written
          /\ sendOutcome'.kind = "return" =>
               /\ started
               /\ Len(written') = Len(written) + 1
               /\ SubSeq(written', 1, Len(written)) = written
               /\ OneLineOf(written'[Len(written')], sending')]_vars

\* three calls of send(): one, on the started transport, wrote the tool
\* result whose text has line breaks, and the last, after close(), was
\* refused
WitnessWritesOnlyWhileStarted ==
  /\ nsent = 3
  /\ closed /\ ~started
  /\ sendOutcome = NotStarted
  /\ Len(written) = 1
  /\ \E i \in DOMAIN written[1] : written[1][i] = "\\n"

====
